---------------------------- MODULE Spec2Model ----------------------------
(***************************************************************************)
(* A model of the dalvik crate: the single-instruction decoder             *)
(* (decode.rs: decode_one and the format primitives of module d), the      *)
(* length and control-flow tables (Instruction::len,                       *)
(* Instruction::control_flow), the bulk decoder (decode_all) and the       *)
(* basic-block lifter (blocks.rs: basic_blocks, decode_bb).                *)
(*                                                                         *)
(* Code units are naturals below 65536.  A slice &[u16] is a sequence; the *)
(* `&mut &[u16]` cursor of decode_one is the suffix that is left.  A panic *)
(* (todo!(), unwrap() on Err, an index or slice out of range, an           *)
(* arithmetic overflow in a build with overflow checks) is an outcome of   *)
(* its own, distinct from the typed results Ok and Err.                    *)
(*                                                                         *)
(* TLC's integers are 32 bits wide, so u32 operands are kept             *)
(* as the pair <<high unit, low unit>> and the u64 operand of const-wide   *)
(* as its four units, most significant first; i32 values are integers.     *)
(* A usize is modelled by its two's-complement signed reading (so that a   *)
(* negative i32 cast to usize keeps its representation) and UsizeLt is the *)
(* unsigned order on it.                                                   *)
(***************************************************************************)
EXTENDS Integers, Sequences, FiniteSets, TLC

VARIABLES
  buffer,           \* the caller's code-unit buffer (never written)
  cursor,           \* code units by which the caller's slice has been advanced
  ret,              \* what the last call returned (NoRet before any call)
  pc,               \* "run", "returned" or "panicked"
  until_arg,        \* decode_all: the `until` argument
  ins,              \* decode_all: the instruction vector built so far
  entries_arg,      \* basic_blocks: the `entries` argument
  bbs,              \* basic_blocks: the resolved blocks, keyed by address
  search_next,      \* basic_blocks: the pending addresses
  popped,           \* basic_blocks: the start addresses popped so far, in order
  overflow_checks   \* the build profile: TRUE when arithmetic overflow panics

vars == <<buffer, cursor, ret, pc, until_arg, ins, entries_arg, bbs,
          search_next, popped, overflow_checks>>

-----------------------------------------------------------------------------
(* Integer helpers: widths, casts, shifts.                                  *)

\* `x as u8` of a u16
AsU8(x) == x % 256

\* `x >> n` on an unsigned value
Shr(x, n) == x \div (2 ^ n)

\* `x as i8` of a u8: the same bits read as two's complement
AsI8(x) == IF x >= 128 THEN x - 256 ELSE x

\* `x as i16` of a u16
AsI16(x) == IF x >= 32768 THEN x - 65536 ELSE x

\* `x as i32` of a u32 kept as <<high, low>>
AsI32(x) == AsI16(x[1]) * 65536 + x[2]

\* `(ah as u32) << 16 | al as u32`, kept as the pair of its halves
U32(ah, al) == <<ah, al>>

\* whether the u32 `x` (a pair of halves) exceeds the natural q
U32Gt(x, q) == \/ x[1] > q \div 65536
               \/ x[1] = q \div 65536 /\ x[2] > q % 65536

\* the slice `&s[n..]` for 0 <= n <= s.len()
Drop(s, n) == SubSeq(s, n + 1, Len(s))

-----------------------------------------------------------------------------
(* Results.  `rest` is the slice the `&mut &[u16]` argument is left as.     *)

Truncated == [error |-> "Truncated"]
Encoding == [error |-> "Encoding"]
Metadata(length) == [error |-> "Metadata", length |-> length]

Ok(v, rest) == [kind |-> "Ok", val |-> v, rest |-> rest]
Err(e, rest) == [kind |-> "Err", val |-> e, rest |-> rest]
Panic(rest) == [kind |-> "Panic", val |-> <<>>, rest |-> rest]

\* an Instruction: its variant and its fields in declaration order
Ins(tag, f) == [tag |-> tag, f |-> f]

-----------------------------------------------------------------------------
(* decode.rs, mod opcode: the opcode constants.                             *)

opcode ==
  [ NOP |-> 0, MOVE |-> 1, MOVEFROM16 |-> 2, MOVE16 |-> 3,
    MOVEWIDE |-> 4, MOVEWIDEFROM16 |-> 5, MOVEWIDE16 |-> 6, MOVEOBJECT |-> 7,
    MOVEOBJECTFROM16 |-> 8, MOVEOBJECT16 |-> 9, MOVERESULT |-> 10, MOVERESULTWIDE |-> 11,
    MOVERESULTOBJECT |-> 12, MOVEEXCEPTION |-> 13, RETURNVOID |-> 14, RETURN |-> 15,
    RETURNWIDE |-> 16, RETURNOBJECT |-> 17, CONST4 |-> 18, CONST16 |-> 19,
    CONST |-> 20, CONSTHIGH16 |-> 21, CONSTWIDE16 |-> 22, CONSTWIDE32 |-> 23,
    CONSTWIDE |-> 24, CONSTWIDEHIGH16 |-> 25, CONSTSTRING |-> 26, CONSTSTRINGJUMBO |-> 27,
    CONSTCLASS |-> 28, MONITORENTER |-> 29, MONITOREXIT |-> 30, CHECKCAST |-> 31,
    INSTANCEOF |-> 32, ARRAYLENGTH |-> 33, NEWINSTANCE |-> 34, NEWARRAY |-> 35,
    FILLEDNEWARRAY |-> 36, FILLEDNEWARRAYRANGE |-> 37, FILLARRAYDATA |-> 38, THROW |-> 39,
    GOTO |-> 40, GOTO16 |-> 41, GOTO32 |-> 42, PACKEDSWITCH |-> 43,
    SPARSESWITCH |-> 44, CMPLFLOAT |-> 45, CMPGFLOAT |-> 46, CMPLDOUBLE |-> 47,
    CMPGDOUBLE |-> 48, CMPLONG |-> 49, IFEQ |-> 50, IFNE |-> 51,
    IFLT |-> 52, IFGE |-> 53, IFGT |-> 54, IFLE |-> 55,
    IFEQZ |-> 56, IFNEZ |-> 57, IFLTZ |-> 58, IFGEZ |-> 59,
    IFGTZ |-> 60, IFLEZ |-> 61, AGET |-> 68, AGETWIDE |-> 69,
    AGETOBJECT |-> 70, AGETBOOLEAN |-> 71, AGETBYTE |-> 72, AGETCHAR |-> 73,
    AGETSHORT |-> 74, APUT |-> 75, APUTWIDE |-> 76, APUTOBJECT |-> 77,
    APUTBOOLEAN |-> 78, APUTBYTE |-> 79, APUTCHAR |-> 80, APUTSHORT |-> 81,
    IGET |-> 82, IGETWIDE |-> 83, IGETOBJECT |-> 84, IGETBOOLEAN |-> 85,
    IGETBYTE |-> 86, IGETCHAR |-> 87, IGETSHORT |-> 88, IPUT |-> 89,
    IPUTWIDE |-> 90, IPUTOBJECT |-> 91, IPUTBOOLEAN |-> 92, IPUTBYTE |-> 93,
    IPUTCHAR |-> 94, IPUTSHORT |-> 95, SGET |-> 96, SGETWIDE |-> 97,
    SGETOBJECT |-> 98, SGETBOOLEAN |-> 99, SGETBYTE |-> 100, SGETCHAR |-> 101,
    SGETSHORT |-> 102, SPUT |-> 103, SPUTWIDE |-> 104, SPUTOBJECT |-> 105,
    SPUTBOOLEAN |-> 106, SPUTBYTE |-> 107, SPUTCHAR |-> 108, SPUTSHORT |-> 109,
    INVOKEVIRTUAL |-> 110, INVOKESUPER |-> 111, INVOKEDIRECT |-> 112, INVOKESTATIC |-> 113,
    INVOKEINTERFACE |-> 114, INVOKEVIRTUALRANGE |-> 116, INVOKESUPERRANGE |-> 117, INVOKEDIRECTRANGE |-> 118,
    INVOKESTATICRANGE |-> 119, INVOKEINTERFACERANGE |-> 120, NEGINT |-> 123, NOTINT |-> 124,
    NEGLONG |-> 125, NOTLONG |-> 126, NEGFLOAT |-> 127, NEGDOUBLE |-> 128,
    INTTOLONG |-> 129, INTTOFLOAT |-> 130, INTTODOUBLE |-> 131, LONGTOINT |-> 132,
    LONGTOFLOAT |-> 133, LONGTODOUBLE |-> 134, FLOATTOINT |-> 135, FLOATTOLONG |-> 136,
    FLOATTODOUBLE |-> 137, DOUBLETOINT |-> 138, DOUBLETOLONG |-> 139, DOUBLETOFLOAT |-> 140,
    INTTOBYTE |-> 141, INTTOCHAR |-> 142, INTTOSHORT |-> 143, ADDINT |-> 144,
    SUBINT |-> 145, MULINT |-> 146, DIVINT |-> 147, REMINT |-> 148,
    ANDINT |-> 149, ORINT |-> 150, XORINT |-> 151, SHLINT |-> 152,
    SHRINT |-> 153, USHRINT |-> 154, ADDLONG |-> 155, SUBLONG |-> 156,
    MULLONG |-> 157, DIVLONG |-> 158, REMLONG |-> 159, ANDLONG |-> 160,
    ORLONG |-> 161, XORLONG |-> 162, SHLLONG |-> 163, SHRLONG |-> 164,
    USHRLONG |-> 165, ADDFLOAT |-> 166, SUBFLOAT |-> 167, MULFLOAT |-> 168,
    DIVFLOAT |-> 169, REMFLOAT |-> 170, ADDDOUBLE |-> 171, SUBDOUBLE |-> 172,
    MULDOUBLE |-> 173, DIVDOUBLE |-> 174, REMDOUBLE |-> 175, ADDINT2 |-> 176,
    SUBINT2 |-> 177, MULINT2 |-> 178, DIVINT2 |-> 179, REMINT2 |-> 180,
    ANDINT2 |-> 181, ORINT2 |-> 182, XORINT2 |-> 183, SHLINT2 |-> 184,
    SHRINT2 |-> 185, USHRINT2 |-> 186, ADDLONG2 |-> 187, SUBLONG2 |-> 188,
    MULLONG2 |-> 189, DIVLONG2 |-> 190, REMLONG2 |-> 191, ANDLONG2 |-> 192,
    ORLONG2 |-> 193, XORLONG2 |-> 194, SHLLONG2 |-> 195, SHRLONG2 |-> 196,
    USHRLONG2 |-> 197, ADDFLOAT2 |-> 198, SUBFLOAT2 |-> 199, MULFLOAT2 |-> 200,
    DIVFLOAT2 |-> 201, REMFLOAT2 |-> 202, ADDDOUBLE2 |-> 203, SUBDOUBLE2 |-> 204,
    MULDOUBLE2 |-> 205, DIVDOUBLE2 |-> 206, REMDOUBLE2 |-> 207, ADDINT16 |-> 208,
    RSUBINT16 |-> 209, MULINT16 |-> 210, DIVINT16 |-> 211, REMINT16 |-> 212,
    ANDINT16 |-> 213, ORINT16 |-> 214, XORINT16 |-> 215, ADDINT8 |-> 216,
    RSUBINT8 |-> 217, MULINT8 |-> 218, DIVINT8 |-> 219, REMINT8 |-> 220,
    ANDINT8 |-> 221, ORINT8 |-> 222, XORINT8 |-> 223, SHLINT8 |-> 224,
    SHRINT8 |-> 225, USHRINT8 |-> 226 ]
-----------------------------------------------------------------------------
(* decode.rs, mod d: the format primitives.  Each returns Ok(value, rest)   *)
(* or Err(Truncated | Encoding, rest).  A primitive built on another one    *)
(* is that one's result passed through the rest of its body (the `?`        *)
(* returns an error as it is).                                              *)

\* consume a u16 and advance the slice
consume_u16(bytecode) ==
  IF Len(bytecode) >= 1
    THEN Ok(bytecode[1], Drop(bytecode, 1))
    ELSE Err(Truncated, bytecode)

\* consume a u32 (low unit first) and advance the slice
consume_u32(bytecode) ==
  IF Len(bytecode) >= 2
    THEN Ok(U32(bytecode[2], bytecode[1]), Drop(bytecode, 2))
    ELSE Err(Truncated, bytecode)

\* AA|op, returns AA
aa_op(bytecode) ==
  IF Len(bytecode) >= 1
    THEN Ok(AsU8(Shr(bytecode[1], 8)), Drop(bytecode, 1))
    ELSE Err(Truncated, bytecode)

\* the body of ba_op after `let ab = aa_op(bytecode)?`
ba_of(r) ==
  IF r.kind # "Ok" THEN r
  ELSE LET ab == r.val
           b == Shr(ab, 4)
           a == ab % 16
       IN Ok(<<b, a>>, r.rest)

\* B|A|op, returns (B, A)
ba_op(bytecode) == ba_of(aa_op(bytecode))

\* the body of zz_op after `let aa = aa_op(bytecode)?`: the unit is consumed
\* before the high byte is checked
zz_of(r) ==
  IF r.kind # "Ok" THEN r
  ELSE IF r.val # 0 THEN Err(Encoding, r.rest)
  ELSE Ok(<<>>, r.rest)

\* |op, returns ()
zz_op(bytecode) == zz_of(aa_op(bytecode))

\* AA|op BBBB, returns (AA, BBBB)
aa_op_bbbb(bytecode) ==
  IF Len(bytecode) >= 2
    THEN Ok(<<AsU8(Shr(bytecode[1], 8)), bytecode[2]>>, Drop(bytecode, 2))
    ELSE Err(Truncated, bytecode)

\* the two low operands handed on in the other order, (AA, BB, CC)
ccbb_of_swapped(r) ==
  IF r.kind # "Ok" THEN r
  ELSE Ok(<<r.val[1], AsU8(r.val[2]), AsU8(Shr(r.val[2], 8))>>, r.rest)

\* the body of aa_op_ccbb after `let (aa, ccbb) = aa_op_bbbb(bytecode)?`
ccbb_of(r) ==
  IF r.kind # "Ok" THEN r
  ELSE LET aa == r.val[1]
           ccbb == r.val[2]
           cc == AsU8(Shr(ccbb, 8))
           bb == AsU8(ccbb)
       IN Ok(<<aa, cc, bb>>, r.rest)

\* AA|op CC|BB, returns (AA, CC, BB)
aa_op_ccbb(bytecode) == ccbb_of(aa_op_bbbb(bytecode))

\* the body of ba_op_cccc after `let (ba, cccc) = aa_op_bbbb(bytecode)?`
ba_cccc_of(r) ==
  IF r.kind # "Ok" THEN r
  ELSE LET ba == r.val[1]
           cccc == r.val[2]
           b == Shr(ba, 4)
           a == ba % 16
       IN Ok(<<b, a, cccc>>, r.rest)

\* B|A|op CCCC, returns (B, A, CCCC)
ba_op_cccc(bytecode) == ba_cccc_of(aa_op_bbbb(bytecode))

\* the second component returned whatever the first is
zz_second_unchecked(r) ==
  IF r.kind # "Ok" THEN r
  ELSE Ok(r.val[2], r.rest)

\* the body of zz_op_aaaa and zz_op_aaaaaaaa after the inner primitive: the
\* first component must be zero, the second is returned
zz_second_of(r) ==
  IF r.kind # "Ok" THEN r
  ELSE IF r.val[1] # 0 THEN Err(Encoding, r.rest)
  ELSE Ok(r.val[2], r.rest)

\* |op AAAA, returns AAAA
zz_op_aaaa(bytecode) == zz_second_of(aa_op_bbbb(bytecode))

\* AA|op BBBBBBBB, returns (AA, BBBBBBBB)
aa_op_bbbbbbbb(bytecode) ==
  IF Len(bytecode) >= 3
    THEN Ok(<<AsU8(Shr(bytecode[1], 8)), U32(bytecode[3], bytecode[2])>>,
            Drop(bytecode, 3))
    ELSE Err(Truncated, bytecode)

\* |op AAAAAAAA, returns AAAAAAAA
zz_op_aaaaaaaa(bytecode) == zz_second_of(aa_op_bbbbbbbb(bytecode))

\* the body of aa_op_ccccbbbb after `let (aa, ccccbbbb) = aa_op_bbbbbbbb(..)?`:
\* cccc is the high half of the 32-bit operand (the third unit), bbbb the
\* low half (the second unit)
ccccbbbb_of(r) ==
  IF r.kind # "Ok" THEN r
  ELSE LET aa == r.val[1]
           ccccbbbb == r.val[2]
           cccc == ccccbbbb[1]
           bbbb == ccccbbbb[2]
       IN Ok(<<aa, bbbb, cccc>>, r.rest)

\* AA|op CCCC|BBBB, returns (AA, BBBB, CCCC)
aa_op_ccccbbbb(bytecode) == ccccbbbb_of(aa_op_bbbbbbbb(bytecode))

\* A|G|op BBBB F|E|D|C, returns (A, G, BBBB, F, E, D, C)
ag_op_bbbbfedc(bytecode) ==
  IF Len(bytecode) >= 3
    THEN LET agop == bytecode[1]
             bbbb == bytecode[2]
             fedc == bytecode[3]
             a == Shr(agop, 12) % 16
             g == Shr(agop, 8) % 16
             f == Shr(fedc, 12) % 16
             e == Shr(fedc, 8) % 16
             d == Shr(fedc, 4) % 16
             c == Shr(fedc, 0) % 16
         IN Ok(<<a, g, bbbb, f, e, d, c>>, Drop(bytecode, 3))
    ELSE Err(Truncated, bytecode)

\* the body of zz_op_aaaabbbb after `let (zz, aaaa, bbbb) = aa_op_ccccbbbb(..)?`
zz_aaaabbbb_of(r) ==
  IF r.kind # "Ok" THEN r
  ELSE IF r.val[1] # 0 THEN Err(Encoding, r.rest)
  ELSE Ok(<<r.val[2], r.val[3]>>, r.rest)

\* |op AAAA BBBB, returns (AAAA, BBBB)
zz_op_aaaabbbb(bytecode) == zz_aaaabbbb_of(aa_op_ccccbbbb(bytecode))

\* AA|op BBBBBBBBBBBBBBBB, returns (AA, the 64-bit operand as its four units)
aa_op_bbbbbbbbbbbbbbbb(bytecode) ==
  IF Len(bytecode) >= 5
    THEN Ok(<<AsU8(Shr(bytecode[1], 8)),
              <<bytecode[5], bytecode[4], bytecode[3], bytecode[2]>>>>,
            Drop(bytecode, 5))
    ELSE Err(Truncated, bytecode)

-----------------------------------------------------------------------------
(* decode.rs, decode_one: the opcode 0x00 arm.                              *)

\* packed-switch-payload after `size` and `_first_key` were consumed:
\* 2 * size units of targets must follow
packed_switch_targets(size, r2) ==
  IF r2.kind # "Ok" THEN r2
  ELSE IF Len(r2.rest) < 2 * size THEN Err(Truncated, r2.rest)
  ELSE Panic(r2.rest)                        \* todo!("handle inline metadata?")

packed_switch_payload(r1) ==
  IF r1.kind # "Ok" THEN r1
  ELSE packed_switch_targets(r1.val, consume_u32(r1.rest))

\* sparse-switch-payload after `size` was consumed: 2 * 2 * size units of
\* keys and targets must follow
sparse_switch_payload(r1) ==
  IF r1.kind # "Ok" THEN r1
  ELSE IF Len(r1.rest) < 2 * 2 * r1.val THEN Err(Truncated, r1.rest)
  ELSE Panic(r1.rest)                        \* todo!("handle inline metadata?")

\* fill-array-data-payload after `element_width` and `size` were consumed:
\* code_size = (element_width * size + 1) / 2 units must follow, and the
\* slice is shorter than code_size exactly when element_width * size > 2 * len
fill_array_data_data(element_width, r2) ==
  IF r2.kind # "Ok" THEN r2
  ELSE IF /\ element_width > 0
          /\ U32Gt(r2.val, (2 * Len(r2.rest)) \div element_width)
    THEN Err(Truncated, r2.rest)
  ELSE Panic(r2.rest)                        \* todo!("handle inline metadata?")

fill_array_data_payload(r1) ==
  IF r1.kind # "Ok" THEN r1
  ELSE fill_array_data_data(r1.val, consume_u32(r1.rest))

\* `match d::aa_op(bytecode)? { 0x00 => .., 0x01 => .., 0x02 => .., 0x03 => .. }`
nop_of(r) ==
  IF r.kind # "Ok" THEN r
  ELSE CASE r.val = 0 -> Ok(Ins("Nop", <<>>), r.rest)
         [] r.val = 1 -> packed_switch_payload(consume_u16(r.rest))
         [] r.val = 2 -> sparse_switch_payload(consume_u16(r.rest))
         [] r.val = 3 -> fill_array_data_payload(consume_u16(r.rest))
         [] OTHER -> Err(Encoding, r.rest)

decode_nop(bytecode) == nop_of(aa_op(bytecode))

-----------------------------------------------------------------------------
(* decode.rs, decode_one: the arms that build their instruction in more     *)
(* than one step.                                                           *)

\* opcode::CONST4: sign extend the 4-bit literal to i8
const4_of(r) ==
  IF r.kind # "Ok" THEN r
  ELSE LET src0 == r.val[1]
           dst == r.val[2]
           src == IF (src0 \div 8) % 2 = 1 THEN src0 + 240 ELSE src0
       IN Ok(Ins("Const4", <<dst, AsI8(src)>>), r.rest)

\* the registers in the order of their nibbles in the code units
args5_raw_order(tag, r) ==
  IF r.kind # "Ok" THEN r
  ELSE Ok(Ins(tag, <<r.val[3], r.val[1],
                     <<r.val[2], r.val[4], r.val[5], r.val[6], r.val[7]>>>>),
          r.rest)

\* opcode::FILLEDNEWARRAY and opcode::INVOKE*: `let args = [c, d, e, f, g]`
args5_of(tag, r) ==
  IF r.kind # "Ok" THEN r
  ELSE LET nargs == r.val[1]
           g == r.val[2]
           index == r.val[3]
           f == r.val[4]
           e == r.val[5]
           d == r.val[6]
           c == r.val[7]
           args == <<c, d, e, f, g>>
       IN Ok(Ins(tag, <<index, nargs, args>>), r.rest)

\* `for r in start..start + count as u16 { args.push(r) }`: the u16 sum
\* panics on overflow in a build with overflow checks and wraps otherwise,
\* which leaves an empty range
range_args(tag, index, start, count, rest) ==
  IF start + count > 65535
    THEN IF overflow_checks
           THEN Panic(rest)
           ELSE Ok(Ins(tag, <<index, <<>>>>), rest)
    ELSE Ok(Ins(tag, <<index, [k \in 1..count |-> start + (k - 1)]>>), rest)

\* opcode::FILLEDNEWARRAYRANGE and opcode::INVOKE*RANGE
range_of(tag, r) ==
  IF r.kind # "Ok" THEN r
  ELSE LET count == r.val[1]
           index == r.val[2]
           start == r.val[3]
       IN range_args(tag, index, start, count, r.rest)

\* the inner `match op` of the invoke arm
invoke_variant(op) ==
  CASE op = opcode.INVOKEVIRTUAL -> "InvokeVirtual"
    [] op = opcode.INVOKESUPER -> "InvokeSuper"
    [] op = opcode.INVOKEDIRECT -> "InvokeDirect"
    [] op = opcode.INVOKESTATIC -> "InvokeStatic"
    [] op = opcode.INVOKEINTERFACE -> "InvokeInterface"

\* the inner `match op` of the invoke/range arm
invoke_range_variant(op) ==
  CASE op = opcode.INVOKEVIRTUALRANGE -> "InvokeVirtualRange"
    [] op = opcode.INVOKESUPERRANGE -> "InvokeSuperRange"
    [] op = opcode.INVOKEDIRECTRANGE -> "InvokeDirectRange"
    [] op = opcode.INVOKESTATICRANGE -> "InvokeStaticRange"
    [] op = opcode.INVOKEINTERFACERANGE -> "InvokeInterfaceRange"

-----------------------------------------------------------------------------
(* decode.rs, decode_one: the arms of one shape,                            *)
(*   opcode::OP => { let (p1, .., pn) = d::prim(bytecode)?;                 *)
(*                   Instruction::Variant(pi, pj, pk as T) }                *)
(* one row each, in source order: the opcode, the primitive, the variant,   *)
(* the positions in (p1, .., pn) of the variant's fields, and the cast `T`  *)
(* of the last field ("" when it is not cast).                              *)

Arms ==
  <<<<opcode.MOVE, "ba_op", "Move", <<2, 1>>, "">>,
    <<opcode.MOVEFROM16, "aa_op_bbbb", "MoveFrom16", <<1, 2>>, "">>,
    <<opcode.MOVE16, "zz_op_aaaabbbb", "Move16", <<1, 2>>, "">>,
    <<opcode.MOVEWIDE, "ba_op", "MoveWide", <<2, 1>>, "">>,
    <<opcode.MOVEWIDEFROM16, "aa_op_bbbb", "MoveWideFrom16", <<1, 2>>, "">>,
    <<opcode.MOVEWIDE16, "zz_op_aaaabbbb", "MoveWide16", <<1, 2>>, "">>,
    <<opcode.MOVEOBJECT, "ba_op", "MoveObject", <<2, 1>>, "">>,
    <<opcode.MOVEOBJECTFROM16, "aa_op_bbbb", "MoveObjectFrom16", <<1, 2>>, "">>,
    <<opcode.MOVEOBJECT16, "zz_op_aaaabbbb", "MoveObject16", <<1, 2>>, "">>,
    <<opcode.MOVERESULT, "aa_op", "MoveResult", <<1>>, "">>,
    <<opcode.MOVERESULTWIDE, "aa_op", "MoveResultWide", <<1>>, "">>,
    <<opcode.MOVERESULTOBJECT, "aa_op", "MoveResultObject", <<1>>, "">>,
    <<opcode.MOVEEXCEPTION, "aa_op", "MoveException", <<1>>, "">>,
    <<opcode.RETURNVOID, "zz_op", "ReturnVoid", <<>>, "">>,
    <<opcode.RETURN, "aa_op", "Return", <<1>>, "">>,
    <<opcode.RETURNWIDE, "aa_op", "ReturnWide", <<1>>, "">>,
    <<opcode.RETURNOBJECT, "aa_op", "ReturnObject", <<1>>, "">>,
    <<opcode.CONST16, "aa_op_bbbb", "Const16", <<1, 2>>, "i16">>,
    <<opcode.CONST, "aa_op_bbbbbbbb", "Const", <<1, 2>>, "">>,
    <<opcode.CONSTHIGH16, "aa_op_bbbb", "ConstHigh16", <<1, 2>>, "i16">>,
    <<opcode.CONSTWIDE16, "aa_op_bbbb", "ConstWide16", <<1, 2>>, "i16">>,
    <<opcode.CONSTWIDE32, "aa_op_bbbbbbbb", "ConstWide32", <<1, 2>>, "">>,
    <<opcode.CONSTWIDE, "aa_op_bbbbbbbbbbbbbbbb", "ConstWide", <<1, 2>>, "">>,
    <<opcode.CONSTWIDEHIGH16, "aa_op_bbbb", "ConstWideHigh16", <<1, 2>>, "">>,
    <<opcode.CONSTSTRING, "aa_op_bbbb", "ConstString", <<1, 2>>, "">>,
    <<opcode.CONSTSTRINGJUMBO, "aa_op_bbbbbbbb", "ConstStringJumbo", <<1, 2>>, "">>,
    <<opcode.CONSTCLASS, "aa_op_bbbb", "ConstClass", <<1, 2>>, "">>,
    <<opcode.MONITORENTER, "aa_op", "MonitorEnter", <<1>>, "">>,
    <<opcode.MONITOREXIT, "aa_op", "MonitorExit", <<1>>, "">>,
    <<opcode.CHECKCAST, "aa_op_bbbb", "CheckCast", <<1, 2>>, "">>,
    <<opcode.INSTANCEOF, "ba_op_cccc", "InstanceOf", <<2, 1, 3>>, "">>,
    <<opcode.ARRAYLENGTH, "ba_op", "ArrayLength", <<1, 2>>, "">>,
    <<opcode.NEWINSTANCE, "aa_op_bbbb", "NewInstance", <<1, 2>>, "">>,
    <<opcode.NEWARRAY, "ba_op_cccc", "NewArray", <<2, 1, 3>>, "">>,
    <<opcode.FILLARRAYDATA, "aa_op_bbbbbbbb", "FillArrayData", <<1, 2>>, "i32">>,
    <<opcode.THROW, "aa_op", "Throw", <<1>>, "">>,
    <<opcode.GOTO, "aa_op", "Goto", <<1>>, "i8">>,
    <<opcode.GOTO16, "zz_op_aaaa", "Goto16", <<1>>, "i16">>,
    <<opcode.GOTO32, "zz_op_aaaaaaaa", "Goto32", <<1>>, "i32">>,
    <<opcode.PACKEDSWITCH, "aa_op_bbbbbbbb", "PackedSwitch", <<1, 2>>, "i32">>,
    <<opcode.SPARSESWITCH, "aa_op_bbbbbbbb", "SparseSwitch", <<1, 2>>, "i32">>,
    <<opcode.CMPLFLOAT, "aa_op_ccbb", "CmplFloat", <<1, 3, 2>>, "">>,
    <<opcode.CMPGFLOAT, "aa_op_ccbb", "CmpgFloat", <<1, 3, 2>>, "">>,
    <<opcode.CMPLDOUBLE, "aa_op_ccbb", "CmplDouble", <<1, 3, 2>>, "">>,
    <<opcode.CMPGDOUBLE, "aa_op_ccbb", "CmpgDouble", <<1, 3, 2>>, "">>,
    <<opcode.CMPLONG, "aa_op_ccbb", "CmpLong", <<1, 3, 2>>, "">>,
    <<opcode.IFEQ, "ba_op_cccc", "IfEq", <<2, 1, 3>>, "i16">>,
    <<opcode.IFNE, "ba_op_cccc", "IfNe", <<2, 1, 3>>, "i16">>,
    <<opcode.IFLT, "ba_op_cccc", "IfLt", <<2, 1, 3>>, "i16">>,
    <<opcode.IFGE, "ba_op_cccc", "IfGe", <<2, 1, 3>>, "i16">>,
    <<opcode.IFGT, "ba_op_cccc", "IfGt", <<2, 1, 3>>, "i16">>,
    <<opcode.IFLE, "ba_op_cccc", "IfLe", <<2, 1, 3>>, "i16">>,
    <<opcode.IFEQZ, "aa_op_bbbb", "IfEqz", <<1, 2>>, "i16">>,
    <<opcode.IFNEZ, "aa_op_bbbb", "IfNez", <<1, 2>>, "i16">>,
    <<opcode.IFLTZ, "aa_op_bbbb", "IfLtz", <<1, 2>>, "i16">>,
    <<opcode.IFGEZ, "aa_op_bbbb", "IfGez", <<1, 2>>, "i16">>,
    <<opcode.IFGTZ, "aa_op_bbbb", "IfGtz", <<1, 2>>, "i16">>,
    <<opcode.IFLEZ, "aa_op_bbbb", "IfLez", <<1, 2>>, "i16">>,
    <<opcode.AGET, "aa_op_ccbb", "AGet", <<1, 3, 2>>, "">>,
    <<opcode.AGETWIDE, "aa_op_ccbb", "AGetWide", <<1, 3, 2>>, "">>,
    <<opcode.AGETOBJECT, "aa_op_ccbb", "AGetObject", <<1, 3, 2>>, "">>,
    <<opcode.AGETBOOLEAN, "aa_op_ccbb", "AGetBoolean", <<1, 3, 2>>, "">>,
    <<opcode.AGETBYTE, "aa_op_ccbb", "AGetByte", <<1, 3, 2>>, "">>,
    <<opcode.AGETCHAR, "aa_op_ccbb", "AGetChar", <<1, 3, 2>>, "">>,
    <<opcode.AGETSHORT, "aa_op_ccbb", "AGetShort", <<1, 3, 2>>, "">>,
    <<opcode.APUT, "aa_op_ccbb", "APut", <<1, 3, 2>>, "">>,
    <<opcode.APUTWIDE, "aa_op_ccbb", "APutWide", <<1, 3, 2>>, "">>,
    <<opcode.APUTOBJECT, "aa_op_ccbb", "APutObject", <<1, 3, 2>>, "">>,
    <<opcode.APUTBOOLEAN, "aa_op_ccbb", "APutBoolean", <<1, 3, 2>>, "">>,
    <<opcode.APUTBYTE, "aa_op_ccbb", "APutByte", <<1, 3, 2>>, "">>,
    <<opcode.APUTCHAR, "aa_op_ccbb", "APutChar", <<1, 3, 2>>, "">>,
    <<opcode.APUTSHORT, "aa_op_ccbb", "APutShort", <<1, 3, 2>>, "">>,
    <<opcode.IGET, "ba_op_cccc", "IGet", <<2, 1, 3>>, "">>,
    <<opcode.IGETWIDE, "ba_op_cccc", "IGetWide", <<2, 1, 3>>, "">>,
    <<opcode.IGETOBJECT, "ba_op_cccc", "IGetObject", <<2, 1, 3>>, "">>,
    <<opcode.IGETBOOLEAN, "ba_op_cccc", "IGetBoolean", <<2, 1, 3>>, "">>,
    <<opcode.IGETBYTE, "ba_op_cccc", "IGetByte", <<2, 1, 3>>, "">>,
    <<opcode.IGETCHAR, "ba_op_cccc", "IGetChar", <<2, 1, 3>>, "">>,
    <<opcode.IGETSHORT, "ba_op_cccc", "IGetShort", <<2, 1, 3>>, "">>,
    <<opcode.IPUT, "ba_op_cccc", "IPut", <<2, 1, 3>>, "">>,
    <<opcode.IPUTWIDE, "ba_op_cccc", "IPutWide", <<2, 1, 3>>, "">>,
    <<opcode.IPUTOBJECT, "ba_op_cccc", "IPutObject", <<2, 1, 3>>, "">>,
    <<opcode.IPUTBOOLEAN, "ba_op_cccc", "IPutBoolean", <<2, 1, 3>>, "">>,
    <<opcode.IPUTBYTE, "ba_op_cccc", "IPutByte", <<2, 1, 3>>, "">>,
    <<opcode.IPUTCHAR, "ba_op_cccc", "IPutChar", <<2, 1, 3>>, "">>,
    <<opcode.IPUTSHORT, "ba_op_cccc", "IPutShort", <<2, 1, 3>>, "">>,
    <<opcode.SGET, "aa_op_bbbb", "SGet", <<1, 2>>, "">>,
    <<opcode.SGETWIDE, "aa_op_bbbb", "SGetWide", <<1, 2>>, "">>,
    <<opcode.SGETOBJECT, "aa_op_bbbb", "SGetObject", <<1, 2>>, "">>,
    <<opcode.SGETBOOLEAN, "aa_op_bbbb", "SGetBoolean", <<1, 2>>, "">>,
    <<opcode.SGETBYTE, "aa_op_bbbb", "SGetByte", <<1, 2>>, "">>,
    <<opcode.SGETCHAR, "aa_op_bbbb", "SGetChar", <<1, 2>>, "">>,
    <<opcode.SGETSHORT, "aa_op_bbbb", "SGetShort", <<1, 2>>, "">>,
    <<opcode.SPUT, "aa_op_bbbb", "SPut", <<1, 2>>, "">>,
    <<opcode.SPUTWIDE, "aa_op_bbbb", "SPutWide", <<1, 2>>, "">>,
    <<opcode.SPUTOBJECT, "aa_op_bbbb", "SPutObject", <<1, 2>>, "">>,
    <<opcode.SPUTBOOLEAN, "aa_op_bbbb", "SPutBoolean", <<1, 2>>, "">>,
    <<opcode.SPUTBYTE, "aa_op_bbbb", "SPutByte", <<1, 2>>, "">>,
    <<opcode.SPUTCHAR, "aa_op_bbbb", "SPutChar", <<1, 2>>, "">>,
    <<opcode.SPUTSHORT, "aa_op_bbbb", "SPutShort", <<1, 2>>, "">>,
    <<opcode.NEGINT, "ba_op", "NegInt", <<2, 1>>, "">>,
    <<opcode.NOTINT, "ba_op", "NotInt", <<2, 1>>, "">>,
    <<opcode.NEGLONG, "ba_op", "NegLong", <<2, 1>>, "">>,
    <<opcode.NOTLONG, "ba_op", "NotLong", <<2, 1>>, "">>,
    <<opcode.NEGFLOAT, "ba_op", "NegFloat", <<2, 1>>, "">>,
    <<opcode.NEGDOUBLE, "ba_op", "NegDouble", <<2, 1>>, "">>,
    <<opcode.INTTOLONG, "ba_op", "IntToLong", <<2, 1>>, "">>,
    <<opcode.INTTOFLOAT, "ba_op", "IntToFloat", <<2, 1>>, "">>,
    <<opcode.INTTODOUBLE, "ba_op", "IntToDouble", <<2, 1>>, "">>,
    <<opcode.LONGTOINT, "ba_op", "LongToInt", <<2, 1>>, "">>,
    <<opcode.LONGTOFLOAT, "ba_op", "LongToFloat", <<2, 1>>, "">>,
    <<opcode.LONGTODOUBLE, "ba_op", "LongToDouble", <<2, 1>>, "">>,
    <<opcode.FLOATTOINT, "ba_op", "FloatToInt", <<2, 1>>, "">>,
    <<opcode.FLOATTOLONG, "ba_op", "FloatToLong", <<2, 1>>, "">>,
    <<opcode.FLOATTODOUBLE, "ba_op", "FloatToDouble", <<2, 1>>, "">>,
    <<opcode.DOUBLETOINT, "ba_op", "DoubleToInt", <<2, 1>>, "">>,
    <<opcode.DOUBLETOLONG, "ba_op", "DoubleToLong", <<2, 1>>, "">>,
    <<opcode.DOUBLETOFLOAT, "ba_op", "DoubleToFloat", <<2, 1>>, "">>,
    <<opcode.INTTOBYTE, "ba_op", "IntTobyte", <<2, 1>>, "">>,
    <<opcode.INTTOCHAR, "ba_op", "IntTochar", <<2, 1>>, "">>,
    <<opcode.INTTOSHORT, "ba_op", "IntToshort", <<2, 1>>, "">>,
    <<opcode.ADDINT, "aa_op_ccbb", "AddInt", <<1, 3, 2>>, "">>,
    <<opcode.SUBINT, "aa_op_ccbb", "SubInt", <<1, 3, 2>>, "">>,
    <<opcode.MULINT, "aa_op_ccbb", "MulInt", <<1, 3, 2>>, "">>,
    <<opcode.DIVINT, "aa_op_ccbb", "DivInt", <<1, 3, 2>>, "">>,
    <<opcode.REMINT, "aa_op_ccbb", "RemInt", <<1, 3, 2>>, "">>,
    <<opcode.ANDINT, "aa_op_ccbb", "AndInt", <<1, 3, 2>>, "">>,
    <<opcode.ORINT, "aa_op_ccbb", "OrInt", <<1, 3, 2>>, "">>,
    <<opcode.XORINT, "aa_op_ccbb", "XorInt", <<1, 3, 2>>, "">>,
    <<opcode.SHLINT, "aa_op_ccbb", "ShlInt", <<1, 3, 2>>, "">>,
    <<opcode.SHRINT, "aa_op_ccbb", "ShrInt", <<1, 3, 2>>, "">>,
    <<opcode.USHRINT, "aa_op_ccbb", "UshrInt", <<1, 3, 2>>, "">>,
    <<opcode.ADDLONG, "aa_op_ccbb", "AddLong", <<1, 3, 2>>, "">>,
    <<opcode.SUBLONG, "aa_op_ccbb", "SubLong", <<1, 3, 2>>, "">>,
    <<opcode.MULLONG, "aa_op_ccbb", "MulLong", <<1, 3, 2>>, "">>,
    <<opcode.DIVLONG, "aa_op_ccbb", "DivLong", <<1, 3, 2>>, "">>,
    <<opcode.REMLONG, "aa_op_ccbb", "RemLong", <<1, 3, 2>>, "">>,
    <<opcode.ANDLONG, "aa_op_ccbb", "AndLong", <<1, 3, 2>>, "">>,
    <<opcode.ORLONG, "aa_op_ccbb", "OrLong", <<1, 3, 2>>, "">>,
    <<opcode.XORLONG, "aa_op_ccbb", "XorLong", <<1, 3, 2>>, "">>,
    <<opcode.SHLLONG, "aa_op_ccbb", "ShlLong", <<1, 3, 2>>, "">>,
    <<opcode.SHRLONG, "aa_op_ccbb", "ShrLong", <<1, 3, 2>>, "">>,
    <<opcode.USHRLONG, "aa_op_ccbb", "UshrLong", <<1, 3, 2>>, "">>,
    <<opcode.ADDFLOAT, "aa_op_ccbb", "AddFloat", <<1, 3, 2>>, "">>,
    <<opcode.SUBFLOAT, "aa_op_ccbb", "SubFloat", <<1, 3, 2>>, "">>,
    <<opcode.MULFLOAT, "aa_op_ccbb", "MulFloat", <<1, 3, 2>>, "">>,
    <<opcode.DIVFLOAT, "aa_op_ccbb", "DivFloat", <<1, 3, 2>>, "">>,
    <<opcode.REMFLOAT, "aa_op_ccbb", "RemFloat", <<1, 3, 2>>, "">>,
    <<opcode.ADDDOUBLE, "aa_op_ccbb", "AddDouble", <<1, 3, 2>>, "">>,
    <<opcode.SUBDOUBLE, "aa_op_ccbb", "SubDouble", <<1, 3, 2>>, "">>,
    <<opcode.MULDOUBLE, "aa_op_ccbb", "MulDouble", <<1, 3, 2>>, "">>,
    <<opcode.DIVDOUBLE, "aa_op_ccbb", "DivDouble", <<1, 3, 2>>, "">>,
    <<opcode.REMDOUBLE, "aa_op_ccbb", "RemDouble", <<1, 3, 2>>, "">>,
    <<opcode.ADDINT2, "ba_op", "AddInt2", <<2, 1>>, "">>,
    <<opcode.SUBINT2, "ba_op", "SubInt2", <<2, 1>>, "">>,
    <<opcode.MULINT2, "ba_op", "MulInt2", <<2, 1>>, "">>,
    <<opcode.DIVINT2, "ba_op", "DivInt2", <<2, 1>>, "">>,
    <<opcode.REMINT2, "ba_op", "RemInt2", <<2, 1>>, "">>,
    <<opcode.ANDINT2, "ba_op", "AndInt2", <<2, 1>>, "">>,
    <<opcode.ORINT2, "ba_op", "OrInt2", <<2, 1>>, "">>,
    <<opcode.XORINT2, "ba_op", "XorInt2", <<2, 1>>, "">>,
    <<opcode.SHLINT2, "ba_op", "ShlInt2", <<2, 1>>, "">>,
    <<opcode.SHRINT2, "ba_op", "ShrInt2", <<2, 1>>, "">>,
    <<opcode.USHRINT2, "ba_op", "UShrInt2", <<2, 1>>, "">>,
    <<opcode.ADDLONG2, "ba_op", "AddLong2", <<2, 1>>, "">>,
    <<opcode.SUBLONG2, "ba_op", "SubLong2", <<2, 1>>, "">>,
    <<opcode.MULLONG2, "ba_op", "MulLong2", <<2, 1>>, "">>,
    <<opcode.DIVLONG2, "ba_op", "DivLong2", <<2, 1>>, "">>,
    <<opcode.REMLONG2, "ba_op", "RemLong2", <<2, 1>>, "">>,
    <<opcode.ANDLONG2, "ba_op", "AndLong2", <<2, 1>>, "">>,
    <<opcode.ORLONG2, "ba_op", "OrLong2", <<2, 1>>, "">>,
    <<opcode.XORLONG2, "ba_op", "XorLong2", <<2, 1>>, "">>,
    <<opcode.SHLLONG2, "ba_op", "ShlLong2", <<2, 1>>, "">>,
    <<opcode.SHRLONG2, "ba_op", "ShrLong2", <<2, 1>>, "">>,
    <<opcode.USHRLONG2, "ba_op", "UShrLong2", <<2, 1>>, "">>,
    <<opcode.ADDFLOAT2, "ba_op", "AddFloat2", <<2, 1>>, "">>,
    <<opcode.SUBFLOAT2, "ba_op", "SubFloat2", <<2, 1>>, "">>,
    <<opcode.MULFLOAT2, "ba_op", "MulFloat2", <<2, 1>>, "">>,
    <<opcode.DIVFLOAT2, "ba_op", "DivFloat2", <<2, 1>>, "">>,
    <<opcode.REMFLOAT2, "ba_op", "RemFloat2", <<2, 1>>, "">>,
    <<opcode.ADDDOUBLE2, "ba_op", "AddDouble2", <<2, 1>>, "">>,
    <<opcode.SUBDOUBLE2, "ba_op", "SubDouble2", <<2, 1>>, "">>,
    <<opcode.MULDOUBLE2, "ba_op", "MulDouble2", <<2, 1>>, "">>,
    <<opcode.DIVDOUBLE2, "ba_op", "DivDouble2", <<2, 1>>, "">>,
    <<opcode.REMDOUBLE2, "ba_op", "RemDouble2", <<2, 1>>, "">>,
    <<opcode.ADDINT16, "ba_op_cccc", "AddInt16", <<2, 1, 3>>, "i16">>,
    <<opcode.RSUBINT16, "ba_op_cccc", "RsubInt16", <<2, 1, 3>>, "i16">>,
    <<opcode.MULINT16, "ba_op_cccc", "MulInt16", <<2, 1, 3>>, "i16">>,
    <<opcode.DIVINT16, "ba_op_cccc", "DivInt16", <<2, 1, 3>>, "i16">>,
    <<opcode.REMINT16, "ba_op_cccc", "RemInt16", <<2, 1, 3>>, "i16">>,
    <<opcode.ANDINT16, "ba_op_cccc", "AndInt16", <<2, 1, 3>>, "i16">>,
    <<opcode.ORINT16, "ba_op_cccc", "OrInt16", <<2, 1, 3>>, "i16">>,
    <<opcode.XORINT16, "ba_op_cccc", "XorInt16", <<2, 1, 3>>, "i16">>,
    <<opcode.ADDINT8, "aa_op_ccbb", "AddInt8", <<1, 3, 2>>, "i8">>,
    <<opcode.RSUBINT8, "aa_op_ccbb", "RsubInt8", <<1, 3, 2>>, "i8">>,
    <<opcode.MULINT8, "aa_op_ccbb", "MulInt8", <<1, 3, 2>>, "i8">>,
    <<opcode.DIVINT8, "aa_op_ccbb", "DivInt8", <<1, 3, 2>>, "i8">>,
    <<opcode.REMINT8, "aa_op_ccbb", "RemInt8", <<1, 3, 2>>, "i8">>,
    <<opcode.ANDINT8, "aa_op_ccbb", "AndInt8", <<1, 3, 2>>, "i8">>,
    <<opcode.ORINT8, "aa_op_ccbb", "OrInt8", <<1, 3, 2>>, "i8">>,
    <<opcode.XORINT8, "aa_op_ccbb", "XorInt8", <<1, 3, 2>>, "i8">>,
    <<opcode.SHLINT8, "aa_op_ccbb", "ShlInt8", <<1, 3, 2>>, "i8">>,
    <<opcode.SHRINT8, "aa_op_ccbb", "ShrInt8", <<1, 3, 2>>, "i8">>,
    <<opcode.USHRINT8, "aa_op_ccbb", "UshrInt8", <<1, 3, 2>>, "i8">> >>

ArmOps == {Arms[i][1] : i \in DOMAIN Arms}

ArmOf(op) == Arms[CHOOSE i \in DOMAIN Arms : Arms[i][1] = op]

\* the format primitive named in a row
apply_primitive(prim, bytecode) ==
  CASE prim = "aa_op" -> aa_op(bytecode)
    [] prim = "ba_op" -> ba_op(bytecode)
    [] prim = "zz_op" -> zz_op(bytecode)
    [] prim = "aa_op_bbbb" -> aa_op_bbbb(bytecode)
    [] prim = "aa_op_ccbb" -> aa_op_ccbb(bytecode)
    [] prim = "ba_op_cccc" -> ba_op_cccc(bytecode)
    [] prim = "zz_op_aaaa" -> zz_op_aaaa(bytecode)
    [] prim = "aa_op_bbbbbbbb" -> aa_op_bbbbbbbb(bytecode)
    [] prim = "zz_op_aaaaaaaa" -> zz_op_aaaaaaaa(bytecode)
    [] prim = "zz_op_aaaabbbb" -> zz_op_aaaabbbb(bytecode)
    [] prim = "aa_op_bbbbbbbbbbbbbbbb" -> aa_op_bbbbbbbbbbbbbbbb(bytecode)

\* the value of a primitive as the tuple (p1, .., pn) of the `let` pattern
pattern_of(prim, val) ==
  IF prim \in {"aa_op", "zz_op_aaaa", "zz_op_aaaaaaaa"} THEN <<val>> ELSE val

\* `v as T`
cast_as(ty, v) ==
  CASE ty = "" -> v
    [] ty = "i8" -> AsI8(v)
    [] ty = "i16" -> AsI16(v)
    [] ty = "i32" -> AsI32(v)

\* the instruction a row builds from its primitive's result
arm_of(row, r) ==
  IF r.kind # "Ok" THEN r
  ELSE LET p == pattern_of(row[2], r.val)
           sel == row[4]
           n == Len(sel)
       IN Ok(Ins(row[3], [k \in 1..n |->
                            IF k = n THEN cast_as(row[5], p[sel[k]])
                            ELSE p[sel[k]]]),
             r.rest)

\* `match op { .. }`
decode_op(op, bytecode) ==
  CASE op = opcode.NOP -> decode_nop(bytecode)
    [] op = opcode.CONST4 -> const4_of(ba_op(bytecode))
    [] op = opcode.FILLEDNEWARRAY ->
         args5_of("FilledNewArray", ag_op_bbbbfedc(bytecode))
    [] op = opcode.FILLEDNEWARRAYRANGE ->
         range_of("FilledNewArrayRange", aa_op_ccccbbbb(bytecode))
    [] op \in {opcode.INVOKEVIRTUAL, opcode.INVOKESUPER, opcode.INVOKEDIRECT,
               opcode.INVOKESTATIC, opcode.INVOKEINTERFACE} ->
         args5_of(invoke_variant(op), ag_op_bbbbfedc(bytecode))
    [] op \in {opcode.INVOKEVIRTUALRANGE, opcode.INVOKESUPERRANGE,
               opcode.INVOKEDIRECTRANGE, opcode.INVOKESTATICRANGE,
               opcode.INVOKEINTERFACERANGE} ->
         range_of(invoke_range_variant(op), aa_op_ccccbbbb(bytecode))
    [] op \in ArmOps -> arm_of(ArmOf(op), apply_primitive(ArmOf(op)[2], bytecode))
    [] OTHER -> Panic(bytecode)              \* unk => todo!("handle opcode")

\* decode one instruction; `rest` is the slice advanced past it
decode_one(bytecode) ==
  IF Len(bytecode) = 0
    THEN Panic(bytecode)                     \* bytecode[0]: index out of range
    ELSE decode_op(AsU8(bytecode[1]), bytecode)

-----------------------------------------------------------------------------
(* decode.rs, Instruction::len: length in code units, by variant.           *)

Len1Variants ==
  { "Nop", "Move", "MoveWide", "MoveObject", "MoveResult",
    "MoveResultWide", "MoveResultObject", "MoveException", "ReturnVoid", "Return",
    "ReturnWide", "ReturnObject", "Const4", "MonitorEnter", "MonitorExit",
    "ArrayLength", "Throw", "Goto", "NegInt", "NotInt",
    "NegLong", "NotLong", "NegFloat", "NegDouble", "IntToLong",
    "IntToFloat", "IntToDouble", "LongToInt", "LongToFloat", "LongToDouble",
    "FloatToInt", "FloatToLong", "FloatToDouble", "DoubleToInt", "DoubleToLong",
    "DoubleToFloat", "IntTobyte", "IntTochar", "IntToshort", "AddInt2",
    "SubInt2", "MulInt2", "DivInt2", "RemInt2", "AndInt2",
    "OrInt2", "XorInt2", "ShlInt2", "ShrInt2", "UShrInt2",
    "AddLong2", "SubLong2", "MulLong2", "DivLong2", "RemLong2",
    "AndLong2", "OrLong2", "XorLong2", "ShlLong2", "ShrLong2",
    "UShrLong2", "AddFloat2", "SubFloat2", "MulFloat2", "DivFloat2",
    "RemFloat2", "AddDouble2", "SubDouble2", "MulDouble2", "DivDouble2",
    "RemDouble2" }

Len2Variants ==
  { "MoveFrom16", "MoveWideFrom16", "MoveObjectFrom16", "Const16", "ConstHigh16",
    "ConstWide16", "ConstWideHigh16", "ConstString", "ConstClass", "CheckCast",
    "InstanceOf", "NewInstance", "NewArray", "Goto16", "CmplFloat",
    "CmpgFloat", "CmplDouble", "CmpgDouble", "CmpLong", "IfEq",
    "IfNe", "IfLt", "IfGe", "IfGt", "IfLe",
    "IfEqz", "IfNez", "IfLtz", "IfGez", "IfGtz",
    "IfLez", "AGet", "AGetWide", "AGetObject", "AGetBoolean",
    "AGetByte", "AGetChar", "AGetShort", "APut", "APutWide",
    "APutObject", "APutBoolean", "APutByte", "APutChar", "APutShort",
    "IGet", "IGetWide", "IGetObject", "IGetBoolean", "IGetByte",
    "IGetChar", "IGetShort", "IPut", "IPutWide", "IPutObject",
    "IPutBoolean", "IPutByte", "IPutChar", "IPutShort", "SGet",
    "SGetWide", "SGetObject", "SGetBoolean", "SGetByte", "SGetChar",
    "SGetShort", "SPut", "SPutWide", "SPutObject", "SPutBoolean",
    "SPutByte", "SPutChar", "SPutShort", "AddInt", "SubInt",
    "MulInt", "DivInt", "RemInt", "AndInt", "OrInt",
    "XorInt", "ShlInt", "ShrInt", "UshrInt", "AddLong",
    "SubLong", "MulLong", "DivLong", "RemLong", "AndLong",
    "OrLong", "XorLong", "ShlLong", "ShrLong", "UshrLong",
    "AddFloat", "SubFloat", "MulFloat", "DivFloat", "RemFloat",
    "AddDouble", "SubDouble", "MulDouble", "DivDouble", "RemDouble",
    "AddInt16", "RsubInt16", "MulInt16", "DivInt16", "RemInt16",
    "AndInt16", "OrInt16", "XorInt16", "AddInt8", "RsubInt8",
    "MulInt8", "DivInt8", "RemInt8", "AndInt8", "OrInt8",
    "XorInt8", "ShlInt8", "ShrInt8", "UshrInt8" }

Len3Variants ==
  { "Move16", "MoveWide16", "MoveObject16", "Const", "ConstWide32",
    "ConstStringJumbo", "FilledNewArray", "FilledNewArrayRange", "FillArrayData", "Goto32",
    "PackedSwitch", "SparseSwitch", "InvokeVirtual", "InvokeSuper", "InvokeDirect",
    "InvokeStatic", "InvokeInterface", "InvokeVirtualRange", "InvokeSuperRange", "InvokeDirectRange",
    "InvokeStaticRange", "InvokeInterfaceRange" }

Len5Variants ==
  { "ConstWide" }

\* a length table that ignores the variant
len_one_unit(inst) ==
  IF inst.tag \in Len1Variants \cup Len2Variants \cup Len3Variants \cup Len5Variants
    THEN 1 ELSE 0

len(inst) ==
  CASE inst.tag \in Len1Variants -> 1
    [] inst.tag \in Len2Variants -> 2
    [] inst.tag \in Len3Variants -> 3
    [] inst.tag \in Len5Variants -> 5

-----------------------------------------------------------------------------
(* lib.rs, ControlFlow and Instruction::control_flow.                       *)

Terminate == [kind |-> "Terminate", t |-> 0]
GoTo(t) == [kind |-> "GoTo", t |-> t]
Branch(t) == [kind |-> "Branch", t |-> t]
FallThrough == [kind |-> "FallThrough", t |-> 0]

\* a control flow in which throw proceeds to the next instruction
control_flow_throw_falls(inst) ==
  CASE inst.tag \in {"ReturnVoid", "Return", "ReturnWide", "ReturnObject"} ->
         Terminate
    [] inst.tag \in {"Goto", "Goto16", "Goto32"} -> GoTo(inst.f[1])
    [] inst.tag \in {"IfEq", "IfNe", "IfLt", "IfGe", "IfGt", "IfLe"} ->
         Branch(inst.f[3])
    [] inst.tag \in {"IfEqz", "IfNez", "IfLtz", "IfGez", "IfGtz", "IfLez"} ->
         Branch(inst.f[2])
    [] OTHER -> FallThrough

control_flow(inst) ==
  CASE inst.tag \in {"ReturnVoid", "Return", "ReturnWide", "ReturnObject", "Throw"} ->
         Terminate
    [] inst.tag \in {"Goto", "Goto16", "Goto32"} -> GoTo(inst.f[1])
    [] inst.tag \in {"IfEq", "IfNe", "IfLt", "IfGe", "IfGt", "IfLe"} ->
         Branch(inst.f[3])
    [] inst.tag \in {"IfEqz", "IfNez", "IfLtz", "IfGez", "IfGtz", "IfLez"} ->
         Branch(inst.f[2])
    [] OTHER -> FallThrough

-----------------------------------------------------------------------------
(* blocks.rs: NextBranch, BasicBlock, decode_bb.                            *)

NextNone == [kind |-> "None", targets |-> <<>>]
NextGoto(t) == [kind |-> "Goto", targets |-> <<t>>]
NextCond(t, f) == [kind |-> "Cond", targets |-> <<t, f>>]

\* NextBranch::iter: the branch targets, in order
NextBranch_iter(next) == next.targets

BasicBlock(instructions, next) == [instructions |-> instructions, next |-> next]

\* the unsigned order of two usize values kept as their signed reading
UsizeLt(x, y) ==
  IF (x >= 0) = (y >= 0) THEN x < y ELSE x >= 0

\* a sum taken from the address after a one-unit instruction
AddI32_from_next(a, t) == Ok(a + 1 + t, <<>>)

\* `a as i32 + t` for an address a >= 0 and an i32 t: the sum panics on
\* overflow in a build with overflow checks and wraps otherwise
AddI32(a, t) ==
  IF t > 2147483647 - a
    THEN IF overflow_checks
           THEN Panic(<<>>)
           ELSE Ok((a - 2147483647 - 1) + (t - 2147483647 - 1), <<>>)
    ELSE Ok(a + t, <<>>)

\* a lifter that gives a block ending in a goto no exit
goto_without_exit(instructions, s) ==
  IF s.kind # "Ok" THEN s
  ELSE Ok(BasicBlock(instructions, NextNone), <<>>)

\* `.unwrap()` of Err(e): a panic whose message shows e
Unwrap(e) == [kind |-> "Panic", val |-> e, rest |-> <<>>]

\* `NextBranch::Goto((cursor as i32 + t) as usize)`, given the sum
goto_of(instructions, s) ==
  IF s.kind # "Ok" THEN s
  ELSE Ok(BasicBlock(instructions, NextGoto(s.val)), <<>>)

\* a lifter that records only the taken target of an if-*
cond_taken_only(instructions, s, f) ==
  IF s.kind # "Ok" THEN s
  ELSE Ok(BasicBlock(instructions, NextGoto(s.val)), <<>>)

\* `NextBranch::Cond { t: (cursor as i32 + t as i32) as usize, f: cursor + len }`,
\* given the sum
cond_of(instructions, s, f) ==
  IF s.kind # "Ok" THEN s
  ELSE Ok(BasicBlock(instructions, NextCond(s.val, f)), <<>>)

RECURSIVE decode_bb_loop(_, _, _, _)

\* a lifter that never cuts a block after a fall-through
decode_bb_match_uncut(bytecode, cursor0, avoid, instructions, cf, length) ==
  CASE cf.kind = "FallThrough" ->
         decode_bb_loop(bytecode, cursor0 + length, avoid, instructions)
    [] cf.kind = "GoTo" -> goto_of(instructions, AddI32(cursor0, cf.t))
    [] cf.kind = "Branch" ->
         cond_of(instructions, AddI32(cursor0, cf.t), cursor0 + length)
    [] cf.kind = "Terminate" -> Ok(BasicBlock(instructions, NextNone), <<>>)

\* `next = match cf { .. }` with the instruction pushed: the loop continues
\* after a fall-through to an address that is not in `avoid`
decode_bb_match(bytecode, cursor0, avoid, instructions, cf, length) ==
  CASE cf.kind = "FallThrough" ->
         IF (cursor0 + length) \notin avoid
           THEN decode_bb_loop(bytecode, cursor0 + length, avoid, instructions)
           ELSE Ok(BasicBlock(instructions, NextGoto(cursor0 + length)), <<>>)
    [] cf.kind = "GoTo" -> goto_of(instructions, AddI32(cursor0, cf.t))
    [] cf.kind = "Branch" ->
         cond_of(instructions, AddI32(cursor0, cf.t), cursor0 + length)
    [] cf.kind = "Terminate" -> Ok(BasicBlock(instructions, NextNone), <<>>)

\* `decode_one(..).unwrap()`, then control_flow(), len() and the push
decode_bb_unwrap(bytecode, cursor0, avoid, instructions0, r) ==
  IF r.kind = "Err"
    THEN Unwrap(r.val)                       \* unwrap() of Err(e)
  ELSE IF r.kind = "Panic"
    THEN Panic(<<>>)                         \* decode_one panicked
    ELSE decode_bb_match(bytecode, cursor0, avoid, Append(instructions0, r.val),
                         control_flow(r.val), len(r.val))

\* a loop that answers an address outside the buffer with an empty block
decode_bb_loop_lenient(bytecode, cursor0, avoid, instructions0) ==
  IF cursor0 < 0 \/ cursor0 >= Len(bytecode)
    THEN Ok(BasicBlock(instructions0, NextNone), <<>>)
    ELSE decode_bb_unwrap(bytecode, cursor0, avoid, instructions0,
                          decode_one(Drop(bytecode, cursor0)))

\* the loop of decode_bb, from `cursor` with `instructions` decoded so far;
\* returns Ok(BasicBlock) or Panic
decode_bb_loop(bytecode, cursor0, avoid, instructions0) ==
  IF cursor0 < 0 \/ cursor0 > Len(bytecode)
    THEN Panic(<<>>)                         \* &bytecode[cursor..] out of range
    ELSE decode_bb_unwrap(bytecode, cursor0, avoid, instructions0,
                          decode_one(Drop(bytecode, cursor0)))

\* decode a single basic block starting at entry_point, stopping before any
\* address in `avoid`
decode_bb(bytecode, entry_point, avoid) ==
  decode_bb_loop(bytecode, entry_point, avoid, <<>>)

\* the largest pending address
pop_last(s) == CHOOSE x \in s : \A y \in s : x = y \/ UsizeLt(y, x)

\* BTreeSet::pop_first: the smallest element in the unsigned order
pop_first(s) == CHOOSE x \in s : \A y \in s : x = y \/ UsizeLt(x, y)

\* a pending set seeded with 0 and the first entry only
seed_first_entry(entries) ==
  {0} \cup {entries[i] : i \in {j \in 1..Len(entries) : j = 1}}

\* BTreeSet::from([0]) followed by the insertion of every entry
seed(entries) == {0} \cup {entries[i] : i \in 1..Len(entries)}

\* a mapping that keeps the newest block only
map_insert_fresh(m, k, v) == [x \in {k} |-> v]

\* BTreeMap::insert: the value for the key is set, replacing an older one
map_insert(m, k, v) == [x \in DOMAIN m \cup {k} |-> IF x = k THEN v ELSE m[x]]

-----------------------------------------------------------------------------
(* Inputs.  The buffers are drawn from small alphabets of code units chosen *)
(* to reach every arm of the decoder and every exit of the lifter.          *)

\* SpecOne: code units after the first one
MaxTail == 4
\* fill-array-data tables: elements
MaxElems == 3
\* switch tables: entries
MaxCases == 1
\* SpecAll: code units in a buffer
MaxLen == 4
\* SpecAll: the `until` argument
MaxUntil == 3
\* SpecBlocks: code units in a buffer
MaxCode == 4
\* SpecBlocks: supplied entry addresses
MaxEntries == 1

\* all sequences over `s` of length at most n
RECURSIVE SeqsUpTo(_, _)
SeqsUpTo(s, n) ==
  IF n = 0 THEN {<<>>}
  ELSE LET shorter == SeqsUpTo(s, n - 1)
       IN shorter \cup {Append(q, x) : q \in {p \in shorter : Len(p) = n - 1}, x \in s}

Zeros(n) == [i \in 1..n |-> 0]
Prefixes(s) == {SubSeq(s, 1, n) : n \in 0..Len(s)}

\* the inline tables as the decoder reads them (decode.rs, the comments of
\* the opcode 0x00 arm): ident, header, data
PackedSwitchTable(size) == <<256, size, 0, 0>> \o Zeros(2 * size)
SparseSwitchTable(size) == <<512, size>> \o Zeros(2 * 2 * size)
FillArrayDataTable(element_width, size) ==
  <<768, element_width, size, 0>> \o Zeros((element_width * size + 1) \div 2)

Tables ==
  {PackedSwitchTable(n) : n \in 0..MaxCases}
    \cup {SparseSwitchTable(n) : n \in 0..MaxCases}
    \cup {FillArrayDataTable(w, n) : w \in 1..2, n \in 0..MaxElems}

\* the 35c opcodes with two register lists: {v0, v3} with method or type
\* index 0x4455 (A|G = 0x20, F|E|D|C = 0x0030), and {v3, v4, v5, v6, v7}
\* (A|G = 0x57, F|E|D|C = 0x6543)
ArgsExamples ==
  {<<op + 256 * ag, 17493, fedc>> :
     op \in {opcode.FILLEDNEWARRAY, opcode.INVOKEVIRTUAL, opcode.INVOKESUPER,
              opcode.INVOKEDIRECT, opcode.INVOKESTATIC,
              opcode.INVOKEINTERFACE},
     ag \in {32, 87}, fedc \in {48, 25923}}

\* the opcodes of the three-register format 23x (cmp*, aget*/aput*, binary
\* arithmetic) and of the literal format 22b (*/lit8)
ThreeRegOps == (45..49) \cup (68..81) \cup (144..175)
Lit8Ops == 216..226

\* v3 with CC|BB = 0x81|0x02: the two low operands differ, and CC is
\* negative as a literal
CcbbExamples == {<<op + 256 * 3, 33026>> : op \in ThreeRegOps \cup Lit8Ops}

\* SpecOne: every opcode byte under a few high bytes, followed by a short
\* tail; every prefix of a table followed by a nop; and the 35c, 23x and
\* 22b examples
HiBytes == {0, 3, 241}
TailUnits == {0, 65535}
OneBuffers ==
  {<<>>}
    \cup {<<op + 256 * hi>> \o tail :
            op \in 0..255, hi \in HiBytes, tail \in SeqsUpTo(TailUnits, MaxTail)}
    \cup UNION {Prefixes(t \o <<0>>) : t \in Tables}
    \cup ArgsExamples
    \cup CcbbExamples

\* SpecAll: nop, return-void, return-void with a nonzero high byte, const/16
\* (two units), an opcode with no arm; and tables between instructions
AllUnits == {0, 14, 270, 19, 62}
AllBuffers ==
  SeqsUpTo(AllUnits, MaxLen)
    \cup {pre \o t \o post : pre \in {<<>>, <<0>>}, t \in Tables,
                             post \in {<<>>, <<0>>, <<14>>}}

\* SpecBlocks: nop, return-void, goto +2, goto -1, if-eqz v0 (two units),
\* and 3: an offset of +3, or move/16 (three units)
BlockUnits == {0, 14, 552, 65320, 56, 3}

\* `if-nez v0, +2; return-void; nop`
IfNezExample == <<57, 2, 14, 0>>

\* a nop, an inline table, a return-void
TableInCode == {<<0>> \o t \o <<14>> : t \in Tables}

BlockBuffers ==
  SeqsUpTo(BlockUnits, MaxCode) \cup {IfNezExample} \cup TableInCode

\* SpecBlocks: the entry addresses, within the buffer or at its end, listed
\* in increasing order (basic_blocks only inserts them into a set)
EntryLists(bytecode) ==
  {e \in SeqsUpTo(0..Len(bytecode), MaxEntries) :
     \A i \in 1..(Len(e) - 1) : e[i] < e[i + 1]}

NoRet == [at |-> 0, kind |-> "None", val |-> <<>>]
NoBlocks == [x \in {} |-> 0]

-----------------------------------------------------------------------------
(* SpecOne: a caller that calls decode_one on its slice, again and again.   *)

InitOne ==
  /\ buffer \in OneBuffers
  /\ overflow_checks \in BOOLEAN
  /\ cursor = 0
  /\ ret = NoRet
  /\ pc = "run"
  /\ until_arg = 0
  /\ ins = <<>>
  /\ entries_arg = <<>>
  /\ bbs = NoBlocks
  /\ search_next = {}
  /\ popped = <<>>

\* the caller's state after the call returned r (or panicked): the slice
\* stays advanced by the units consumed, also when the call panics after
\* it consumed some
DecodeOneResult(r) ==
  /\ ret' = [at |-> cursor, kind |-> r.kind, val |-> r.val]
  /\ cursor' = Len(buffer) - Len(r.rest)
  /\ pc' = IF r.kind = "Panic" THEN "panicked" ELSE "run"

\* one call of decode_one on the slice &buffer[cursor..]
DecodeOne ==
  /\ pc = "run"
  /\ DecodeOneResult(decode_one(Drop(buffer, cursor)))
  /\ UNCHANGED <<buffer, until_arg, ins, entries_arg, bbs, search_next, popped,
                 overflow_checks>>

NextOne == DecodeOne

SpecOne == InitOne /\ [][NextOne]_vars

-----------------------------------------------------------------------------
(* SpecAll: decode_all(buffer, until_arg), one loop iteration per step.     *)

InitAll ==
  /\ buffer \in AllBuffers
  /\ until_arg \in 0..MaxUntil
  /\ overflow_checks \in BOOLEAN
  /\ cursor = 0
  /\ ins = <<>>
  /\ ret = NoRet
  /\ pc = "run"
  /\ entries_arg = <<>>
  /\ bbs = NoBlocks
  /\ search_next = {}
  /\ popped = <<>>

\* `while !bytecode.is_empty() && ins.len() < until`
decode_all_continues(bytecode, until, instructions) ==
  Len(bytecode) # 0 /\ Len(instructions) < until

\* `ins.push(match decode_one(&mut bytecode) { .. })`, given the result r
DecodeAllMatch(r) ==
  CASE r.kind = "Ok" ->
         /\ ins' = Append(ins, r.val)
         /\ cursor' = Len(buffer) - Len(r.rest)
         /\ UNCHANGED <<ret, pc>>
    \* skip over metadata tables: bytecode = &bytecode[length..]
    [] r.kind = "Err" /\ r.val.error = "Metadata" ->
         IF r.val.length > Len(r.rest)
           THEN /\ pc' = "panicked"
                /\ ret' = [at |-> cursor, kind |-> "Panic", val |-> <<>>]
                /\ UNCHANGED <<cursor, ins>>
           ELSE /\ cursor' = Len(buffer) - Len(r.rest) + r.val.length
                /\ UNCHANGED <<ins, ret, pc>>
    \* Err(e) => return Err(e)
    [] r.kind = "Err" /\ r.val.error # "Metadata" ->
         /\ ret' = [at |-> cursor, kind |-> "Err", val |-> r.val]
         /\ pc' = "returned"
         /\ UNCHANGED <<cursor, ins>>
    [] r.kind = "Panic" ->
         /\ ret' = [at |-> cursor, kind |-> "Panic", val |-> <<>>]
         /\ pc' = "panicked"
         /\ UNCHANGED <<cursor, ins>>

\* one iteration of the loop of decode_all
DecodeAllIter ==
  /\ pc = "run"
  /\ decode_all_continues(Drop(buffer, cursor), until_arg, ins)
  /\ DecodeAllMatch(decode_one(Drop(buffer, cursor)))
  /\ UNCHANGED <<buffer, until_arg, entries_arg, bbs, search_next, popped,
                 overflow_checks>>

\* the loop has ended: Ok(ins)
DecodeAllReturn ==
  /\ pc = "run"
  /\ ~decode_all_continues(Drop(buffer, cursor), until_arg, ins)
  /\ ret' = [at |-> cursor, kind |-> "Ok", val |-> ins]
  /\ pc' = "returned"
  /\ UNCHANGED <<buffer, cursor, until_arg, ins, entries_arg, bbs, search_next,
                 popped, overflow_checks>>

NextAll == DecodeAllIter \/ DecodeAllReturn

SpecAll == InitAll /\ [][NextAll]_vars

-----------------------------------------------------------------------------
(* SpecBlocks: basic_blocks(buffer, entries_arg), one iteration of the      *)
(* worklist loop per step.                                                  *)

InitBlocks ==
  /\ buffer \in BlockBuffers
  /\ entries_arg \in EntryLists(buffer)
  /\ overflow_checks \in BOOLEAN
  /\ bbs = NoBlocks
  /\ search_next = seed(entries_arg)
  /\ popped = <<>>
  /\ ret = NoRet
  /\ pc = "run"
  /\ cursor = 0
  /\ until_arg = 0
  /\ ins = <<>>

\* a worklist that never grows
no_targets(nexts, resolved) == {}

\* the targets of `bb.next.iter()` that are not keys of the mapping
new_targets(nexts, resolved) ==
  {nexts[i] : i \in {j \in 1..Len(nexts) : nexts[j] \notin DOMAIN resolved}}

\* a loop body that keys the block and drops its exit targets
BasicBlocksBody_no_insert(start_addr, pending, r) ==
  /\ popped' = Append(popped, start_addr)
  /\ IF r.kind = "Panic"
       THEN /\ pc' = "panicked"
            /\ ret' = [at |-> start_addr, kind |-> "Panic", val |-> r.val]
            /\ search_next' = pending
            /\ UNCHANGED bbs
       ELSE /\ search_next' = pending
            /\ bbs' = map_insert(bbs, start_addr, r.val)
            /\ UNCHANGED <<ret, pc>>

\* a loop body that queues every exit target, resolved or not, and keeps
\* no record of the visit
BasicBlocksBody_requeue(start_addr, pending, r) ==
  /\ popped' = popped
  /\ IF r.kind = "Panic"
       THEN /\ pc' = "panicked"
            /\ ret' = [at |-> start_addr, kind |-> "Panic", val |-> r.val]
            /\ search_next' = pending
            /\ UNCHANGED bbs
       ELSE /\ search_next' =
                 pending \cup new_targets(NextBranch_iter(r.val.next), NoBlocks)
            /\ bbs' = map_insert(bbs, start_addr, r.val)
            /\ UNCHANGED <<ret, pc>>

\* the body of the worklist loop, given the popped address, the set left
\* and what decode_bb returned
BasicBlocksBody(start_addr, pending, r) ==
  /\ popped' = Append(popped, start_addr)
  /\ IF r.kind = "Panic"
       THEN /\ pc' = "panicked"
            /\ ret' = [at |-> start_addr, kind |-> "Panic", val |-> r.val]
            /\ search_next' = pending
            /\ UNCHANGED bbs
       ELSE /\ search_next' =
                 pending \cup new_targets(NextBranch_iter(r.val.next), bbs)
            /\ bbs' = map_insert(bbs, start_addr, r.val)
            /\ UNCHANGED <<ret, pc>>

\* one iteration of `while let Some(start_addr) = search_next.pop_first()`
BasicBlocksIter ==
  /\ pc = "run"
  /\ search_next # {}
  /\ BasicBlocksBody(pop_first(search_next),
                     search_next \ {pop_first(search_next)},
                     decode_bb(buffer, pop_first(search_next),
                               search_next \ {pop_first(search_next)}))
  /\ UNCHANGED <<buffer, cursor, until_arg, ins, entries_arg, overflow_checks>>

\* the pending set is empty: the mapping is returned
BasicBlocksReturn ==
  /\ pc = "run"
  /\ search_next = {}
  /\ ret' = [at |-> 0, kind |-> "Ok", val |-> bbs]
  /\ pc' = "returned"
  /\ UNCHANGED <<buffer, cursor, until_arg, ins, entries_arg, bbs, search_next,
                 popped, overflow_checks>>

NextBlocks == BasicBlocksIter \/ BasicBlocksReturn

SpecBlocks == InitBlocks /\ [][NextBlocks]_vars

-----------------------------------------------------------------------------
(* Properties of decode_one (SpecOne).  `ret.at` is where the slice stood   *)
(* when the last call was made, `cursor` where it stands now.               *)

\* the slice the last call was made on
CalledOn == Drop(buffer, ret.at)

\* C1: whenever decode_one returns Ok(instruction), the slice has advanced
\* by exactly instruction.len() code units, whatever the variant
LenMatchesConsumed ==
  ret.kind = "Ok" => cursor - ret.at = len(ret.val)

\* a five-unit instruction was decoded and five units were consumed
LenMatchesConsumedWitness ==
  /\ ret.kind = "Ok"
  /\ ret.val.tag = "ConstWide"
  /\ ret.at = 0
  /\ cursor = 5

\* the code units each format primitive reads
PrimitiveUnits(prim) ==
  CASE prim \in {"aa_op", "ba_op", "zz_op"} -> 1
    [] prim \in {"aa_op_bbbb", "aa_op_ccbb", "ba_op_cccc", "zz_op_aaaa"} -> 2
    [] prim \in {"aa_op_bbbbbbbb", "zz_op_aaaaaaaa", "zz_op_aaaabbbb",
                 "aa_op_ccccbbbb", "ag_op_bbbbfedc"} -> 3
    [] prim = "aa_op_bbbbbbbbbbbbbbbb" -> 5

\* the opcodes of the three-unit formats decoded outside the table of arms
ThreeUnitOps ==
  {opcode.FILLEDNEWARRAY, opcode.FILLEDNEWARRAYRANGE,
   opcode.INVOKEVIRTUAL, opcode.INVOKESUPER, opcode.INVOKEDIRECT,
   opcode.INVOKESTATIC, opcode.INVOKEINTERFACE,
   opcode.INVOKEVIRTUALRANGE, opcode.INVOKESUPERRANGE, opcode.INVOKEDIRECTRANGE,
   opcode.INVOKESTATICRANGE, opcode.INVOKEINTERFACERANGE}

\* a payload slice (ident `sub`) that ends before its table does
PayloadShort(sub, b) ==
  CASE sub = 1 -> Len(b) < 4 \/ Len(b) - 4 < 2 * b[2]
    [] sub = 2 -> Len(b) < 2 \/ Len(b) - 2 < 2 * 2 * b[2]
    [] sub = 3 -> \/ Len(b) < 4
                  \/ /\ b[2] > 0
                     /\ U32Gt(U32(b[4], b[3]), (2 * (Len(b) - 4)) \div b[2])
    [] OTHER -> FALSE

\* a non-empty slice holding fewer code units than the format selected by
\* its first code unit requires
FormatShort(op, b) ==
  CASE op = opcode.NOP -> PayloadShort(Shr(b[1], 8), b)
    [] op = opcode.CONST4 -> FALSE
    [] op \in ThreeUnitOps -> Len(b) < 3
    [] op \in ArmOps -> Len(b) < PrimitiveUnits(ArmOf(op)[2])
    [] OTHER -> FALSE

Short(b) == Len(b) = 0 \/ FormatShort(AsU8(b[1]), b)

\* C2: a call on a slice shorter than its format requires (an empty slice
\* and a truncated payload included) returns Truncated and leaves the slice
\* where it was
ShortIsTruncatedInPlace ==
  (ret.kind # "None" /\ Short(CalledOn)) =>
    /\ ret.kind = "Err"
    /\ ret.val = Truncated
    /\ cursor = ret.at

\* opcode values with no arm in decode_one
UnmappedOps == (62..67) \cup {115, 121, 122} \cup (227..255)

\* C3: a call on a slice whose first code unit has an unmapped opcode in its
\* low byte returns the Encoding error; it neither produces an instruction
\* nor panics
UnmappedIsEncoding ==
  (ret.kind # "None" /\ Len(CalledOn) > 0 /\ AsU8(CalledOn[1]) \in UnmappedOps) =>
    /\ ret.kind = "Err"
    /\ ret.val = Encoding

\* whether the slice b begins with the whole of t
StartsWith(b, t) == Len(b) >= Len(t) /\ SubSeq(b, 1, Len(t)) = t

\* C4: a call on a slice that begins with a complete packed-switch,
\* sparse-switch or fill-array-data payload returns Metadata{length} with the
\* size of the table in code units; (w*n+1)/2 + 4 for fill-array-data
PayloadIsMetadata ==
  \A t \in Tables :
    (ret.kind # "None" /\ StartsWith(CalledOn, t)) =>
      /\ ret.kind = "Err"
      /\ ret.val = Metadata(Len(t))

-----------------------------------------------------------------------------
(* Properties of decode_all (SpecAll).                                      *)

\* the instructions of a buffer without tables, up to `until` of them, or
\* the first error; an opcode with no arm counts as the Encoding error
RECURSIVE stream_from(_, _, _)
stream_step(until, acc, r) ==
  CASE r.kind = "Ok" -> stream_from(r.rest, until, Append(acc, r.val))
    [] r.kind = "Err" -> [kind |-> "Err", val |-> r.val]
    [] r.kind = "Panic" -> [kind |-> "Err", val |-> Encoding]

stream_from(bytecode, until, acc) ==
  IF Len(bytecode) = 0 \/ Len(acc) >= until
    THEN [kind |-> "Ok", val |-> acc]
    ELSE stream_step(until, acc, decode_one(bytecode))

stream(bytecode, until) == stream_from(bytecode, until, <<>>)

Take(s, n) == SubSeq(s, 1, IF n < Len(s) THEN n ELSE Len(s))

\* the instruction runs put before and after a table
Pres == {<<>>, <<0>>}
Posts == {<<>>, <<0>>, <<14>>}

\* C5: when decode_all meets a table (the buffer is pre, table, post and
\* `until` is not reached within pre), it returns Ok with the instructions of
\* pre followed by those of post, none for the table, and no Metadata error
TablesAreSkipped ==
  \A pre \in Pres, t \in Tables, post \in Posts :
    (/\ pc # "run"
     /\ buffer = pre \o t \o post
     /\ Len(stream(pre, MaxUntil).val) < until_arg) =>
      /\ pc = "returned"
      /\ ret.kind = "Ok"
      /\ ret.val = Take(stream(pre, MaxUntil).val \o stream(post, MaxUntil).val,
                        until_arg)

\* a buffer of the table-free alphabet
MetadataFree(b) == \A i \in 1..Len(b) : b[i] \in AllUnits

\* C6: on a buffer without tables decode_all returns Ok with the first
\* min(until, n) instructions in order, or the first Truncated or Encoding
\* error and no list; the empty list when until = 0 or the buffer is empty
DecodeAllResult ==
  (pc # "run" /\ MetadataFree(buffer)) =>
    /\ pc = "returned"
    /\ ret.kind = stream(buffer, until_arg).kind
    /\ ret.val = stream(buffer, until_arg).val

-----------------------------------------------------------------------------
(* Properties of basic_blocks (SpecBlocks).                                 *)

\* C7: when a decode made during basic_blocks fails with Truncated or
\* Encoding, basic_blocks returns that error as a typed result and no mapping
DecodeFailureIsReturned ==
  \A e \in {Truncated, Encoding} :
    (pc # "run" /\ ret.kind \in {"Err", "Panic"} /\ ret.val = e) =>
      /\ pc = "returned"
      /\ ret.kind = "Err"

\* the exit targets of every block of a mapping
ExitTargets(m) ==
  UNION {{m[k].next.targets[i] : i \in 1..Len(m[k].next.targets)} : k \in DOMAIN m}

\* C8: the keys of the returned mapping contain 0, every supplied entry
\* address and every exit target of every block
KeysClosed ==
  (pc = "returned" /\ ret.kind = "Ok") =>
    /\ 0 \in DOMAIN ret.val
    /\ \A i \in 1..Len(entries_arg) : entries_arg[i] \in DOMAIN ret.val
    /\ ExitTargets(ret.val) \subseteq DOMAIN ret.val

\* a mapping was returned for a nonzero entry, with a conditional and an
\* unconditional exit in it
KeysClosedWitness ==
  /\ pc = "returned"
  /\ ret.kind = "Ok"
  /\ Len(entries_arg) = 1
  /\ entries_arg[1] # 0
  /\ \E k \in DOMAIN ret.val : ret.val[k].next.kind = "Cond"
  /\ \E k \in DOMAIN ret.val : ret.val[k].next.kind = "Goto"

\* the exit that the control flow of a block's last instruction calls for
ExitMatches(cf, next) ==
  CASE cf.kind = "Terminate" -> next.kind = "None"
    [] cf.kind = "Branch" -> next.kind = "Cond"
    [] cf.kind = "GoTo" -> next.kind = "Goto"
    [] cf.kind = "FallThrough" -> next.kind = "Goto"

WellFormedBlock(bb) ==
  /\ Len(bb.instructions) >= 1
  /\ \A i \in 1..(Len(bb.instructions) - 1) :
       control_flow(bb.instructions[i]).kind = "FallThrough"
  /\ ExitMatches(control_flow(bb.instructions[Len(bb.instructions)]), bb.next)

\* C9: every block of the returned mapping is non-empty, all its
\* instructions but the last fall through, and its exit is None for
\* Terminate, Cond for Branch, Goto for GoTo and for a cut fall-through
BlocksWellFormed ==
  (pc = "returned" /\ ret.kind = "Ok") =>
    \A k \in DOMAIN ret.val : WellFormedBlock(ret.val[k])

\* a returned mapping with a block of two instructions cut at a boundary
\* (its exit is Goto) and a block ending in a return (its exit is None)
BlocksWellFormedWitness ==
  /\ pc = "returned"
  /\ ret.kind = "Ok"
  /\ \E k \in DOMAIN ret.val :
       /\ Len(ret.val[k].instructions) = 2
       /\ control_flow(ret.val[k].instructions[2]).kind = "FallThrough"
       /\ ret.val[k].next.kind = "Goto"
  /\ \E k \in DOMAIN ret.val :
       /\ control_flow(ret.val[k].instructions[Len(ret.val[k].instructions)]).kind
            = "Terminate"
       /\ ret.val[k].next.kind = "None"

\* the code units of a run of instructions
RECURSIVE units(_)
units(instructions) ==
  IF instructions = <<>> THEN 0
  ELSE len(Head(instructions)) + units(Tail(instructions))

\* the addresses of the second and later instructions of the block at k
InnerAddresses(k, bb) ==
  {k + units(SubSeq(bb.instructions, 1, i)) : i \in 1..(Len(bb.instructions) - 1)}

\* C10: no block of the returned mapping spans a supplied entry address: no
\* entry is the address of a second or later instruction of a block
NoBlockSpansEntry ==
  (pc = "returned" /\ ret.kind = "Ok") =>
    \A k \in DOMAIN ret.val : \A i \in 1..Len(entries_arg) :
      entries_arg[i] \notin InnerAddresses(k, ret.val[k])

-----------------------------------------------------------------------------
(* Properties of the block boundaries and exits (SpecBlocks).               *)

\* the addresses of the FallThrough instructions of the straight-line run
\* that starts at address a
RECURSIVE run_from(_, _, _)
run_step(bytecode, a, acc, r) ==
  IF r.kind = "Ok" /\ control_flow(r.val).kind = "FallThrough"
    THEN run_from(bytecode, a + len(r.val), acc \cup {a})
    ELSE acc

run_from(bytecode, a, acc) ==
  IF a >= Len(bytecode) THEN acc
  ELSE run_step(bytecode, a, acc, decode_one(Drop(bytecode, a)))

Run(bytecode) == run_from(bytecode, 0, {})

\* a supplied entry at the address of a second or later instruction of the
\* run from 0, with no other supplied entry before it
FirstEntryInRun(e) ==
  /\ \E i \in 1..Len(entries_arg) : entries_arg[i] = e
  /\ e \in Run(buffer) \ {0}
  /\ \A j \in 1..Len(entries_arg) : ~(0 < entries_arg[j] /\ entries_arg[j] < e)

\* C11: when a supplied entry e lies strictly inside the straight-line run
\* from address 0, the block keyed 0 ends with the last instruction before
\* e, its exit is Goto(e), and a block keyed e begins at e
EntryForcesBoundary ==
  (pc = "returned" /\ ret.kind = "Ok") =>
    \A e \in 1..Len(buffer) :
      FirstEntryInRun(e) =>
        /\ units(ret.val[0].instructions) = e
        /\ ret.val[0].next = NextGoto(e)
        /\ e \in DOMAIN ret.val
        /\ ret.val[e].instructions[1] = decode_one(Drop(buffer, e)).val

\* a mapping was returned for an entry two units into the run from 0
EntryForcesBoundaryWitness ==
  /\ pc = "returned"
  /\ ret.kind = "Ok"
  /\ FirstEntryInRun(2)
  /\ Len(ret.val[0].instructions) = 2
  /\ ret.val[0].next = NextGoto(2)

\* the address of the last instruction of the block keyed k
LastAddress(k, bb) ==
  k + units(SubSeq(bb.instructions, 1, Len(bb.instructions) - 1))

LastOf(bb) == bb.instructions[Len(bb.instructions)]

Jumps(bb) == control_flow(LastOf(bb)).kind \in {"GoTo", "Branch"}

\* C12 (as the code has it): for every block ending in a goto or an if-*,
\* the recorded jump target (Goto target, or Cond t) is the signed offset
\* plus the address of the jumping instruction itself
TargetFromInstructionAddress ==
  (pc = "returned" /\ ret.kind = "Ok") =>
    \A k \in DOMAIN ret.val :
      Jumps(ret.val[k]) =>
        ret.val[k].next.targets[1] =
          LastAddress(k, ret.val[k]) + control_flow(LastOf(ret.val[k])).t

\* a returned mapping with a backward goto and an if-* with a forward offset
TargetFromInstructionAddressWitness ==
  /\ pc = "returned"
  /\ ret.kind = "Ok"
  /\ \E k \in DOMAIN ret.val :
       /\ control_flow(LastOf(ret.val[k])).kind = "GoTo"
       /\ control_flow(LastOf(ret.val[k])).t < 0
  /\ \E k \in DOMAIN ret.val :
       /\ control_flow(LastOf(ret.val[k])).kind = "Branch"
       /\ control_flow(LastOf(ret.val[k])).t > 0

\* C12 (as stated): the recorded jump target is the signed offset plus the
\* address immediately following the jumping instruction (its address plus
\* its length)
TargetFromFollowingAddress ==
  (pc = "returned" /\ ret.kind = "Ok") =>
    \A k \in DOMAIN ret.val :
      Jumps(ret.val[k]) =>
        ret.val[k].next.targets[1] =
          LastAddress(k, ret.val[k]) + len(LastOf(ret.val[k]))
            + control_flow(LastOf(ret.val[k])).t

\* basic_blocks was called on `if-nez v0, +2; return-void; nop` with the
\* entry set {0}
IfNezLifted ==
  /\ buffer = IfNezExample
  /\ entries_arg \in {<<>>, <<0>>}

\* C13 (as the code has it): lifting `if-nez v0, +2; return-void; nop` from
\* entry {0} returns exactly two blocks: the block at 0 is the if-nez with
\* exit Cond{t, f}, f the fall-through address 2 and t = 0 + 2 = 2 as well,
\* and the other block is the return-void at 2; the nop at 3 is in no block
IfNezBlocks ==
  IfNezLifted =>
    /\ pc # "panicked"
    /\ (pc = "returned" =>
          /\ ret.kind = "Ok"
          /\ DOMAIN ret.val = {0, 2}
          /\ ret.val[0] = BasicBlock(<<Ins("IfNez", <<0, 2>>)>>, NextCond(2, 2))
          /\ ret.val[2] = BasicBlock(<<Ins("ReturnVoid", <<>>)>>, NextNone))

\* the example was lifted and its mapping returned
IfNezBlocksWitness ==
  /\ IfNezLifted
  /\ pc = "returned"
  /\ ret.kind = "Ok"
  /\ Cardinality(DOMAIN ret.val) = 2

\* C13 (as stated): lifting the example returns exactly two blocks: the
\* block at 0 ends in Cond{t, f} with f the fall-through address and
\* t = address_of_if + 2, and the other block is a singleton nop block
IfNezOtherBlockIsNop ==
  (IfNezLifted /\ pc # "run") =>
    /\ pc = "returned"
    /\ ret.kind = "Ok"
    /\ Cardinality(DOMAIN ret.val) = 2
    /\ 0 \in DOMAIN ret.val
    /\ ret.val[0].next = NextCond(0 + 2, 0 + len(LastOf(ret.val[0])))
    /\ \E k \in DOMAIN ret.val \ {0} :
         ret.val[k].instructions = <<Ins("Nop", <<>>)>>

\* C14: when the straight-line decoding of a block reaches an inline table
\* (here: nop, table, return-void, lifted from entry {0}), the table is
\* skipped and the block goes on with the next instruction; the table is in
\* no instruction list and the lifting is not aborted
TableSkippedInBlock ==
  (buffer \in TableInCode /\ entries_arg \in {<<>>, <<0>>} /\ pc # "run") =>
    /\ pc = "returned"
    /\ ret.kind = "Ok"
    /\ DOMAIN ret.val = {0}
    /\ ret.val[0] = BasicBlock(<<Ins("Nop", <<>>), Ins("ReturnVoid", <<>>)>>,
                               NextNone)

-----------------------------------------------------------------------------
(* basic_blocks as a function of its arguments, and a worklist that visits *)
(* the pending addresses in any order (SpecAnyOrder).                       *)

\* the worklist loop of basic_blocks from a pending set and the blocks
\* resolved so far: Ok(mapping), or the panic that ends it
RECURSIVE lift_from(_, _, _)
lift_body(bytecode, start_addr, pending, resolved, r) ==
  IF r.kind = "Panic" THEN r
  ELSE lift_from(bytecode,
                 pending \cup new_targets(NextBranch_iter(r.val.next), resolved),
                 map_insert(resolved, start_addr, r.val))

lift_pop(bytecode, start_addr, pending, resolved) ==
  lift_body(bytecode, start_addr, pending, resolved,
            decode_bb(bytecode, start_addr, pending))

lift_from(bytecode, pending, resolved) ==
  IF pending = {} THEN Ok(resolved, <<>>)
  ELSE lift_pop(bytecode, pop_first(pending), pending \ {pop_first(pending)},
                resolved)

basic_blocks(bytecode, entries) == lift_from(bytecode, seed(entries), NoBlocks)

\* SpecAnyOrder, SpecBlocksLive: code units in a buffer
MaxSmallCode == 3

InitSmallBlocks ==
  /\ buffer \in SeqsUpTo(BlockUnits, MaxSmallCode)
  /\ entries_arg \in EntryLists(buffer)
  /\ overflow_checks \in BOOLEAN
  /\ bbs = NoBlocks
  /\ search_next = seed(entries_arg)
  /\ popped = <<>>
  /\ ret = NoRet
  /\ pc = "run"
  /\ cursor = 0
  /\ until_arg = 0
  /\ ins = <<>>

\* one iteration of the loop body for a pending address chosen freely
BasicBlocksAnyIter ==
  /\ pc = "run"
  /\ \E start_addr \in search_next :
       BasicBlocksBody(start_addr, search_next \ {start_addr},
                       decode_bb(buffer, start_addr, search_next \ {start_addr}))
  /\ UNCHANGED <<buffer, cursor, until_arg, ins, entries_arg, overflow_checks>>

NextAnyOrder == BasicBlocksAnyIter \/ BasicBlocksReturn

SpecAnyOrder == InitSmallBlocks /\ [][NextAnyOrder]_vars

\* C15 (as the code has it): whatever the order in which the pending
\* addresses are visited, the worklist ends as the smallest-first worklist
\* does (with a mapping or a panic) and with the same key set
KeysOrderIndependent ==
  /\ pc = "returned" =>
       /\ basic_blocks(buffer, entries_arg).kind = "Ok"
       /\ DOMAIN ret.val = DOMAIN basic_blocks(buffer, entries_arg).val
  /\ pc = "panicked" => basic_blocks(buffer, entries_arg).kind = "Panic"

\* the pending addresses were not visited smallest first, and the mapping
\* returned has the keys of the smallest-first mapping but not its blocks
KeysOrderIndependentWitness ==
  /\ pc = "returned"
  /\ \E i \in 1..(Len(popped) - 1) : popped[i] > popped[i + 1]
  /\ DOMAIN ret.val = DOMAIN basic_blocks(buffer, entries_arg).val
  /\ ret.val # basic_blocks(buffer, entries_arg).val

\* C15 (as stated): whatever the order in which the pending addresses are
\* visited, the mapping has the same keys, the same instruction list per key
\* and the same exit per key as the smallest-first mapping
MappingOrderIndependent ==
  pc = "returned" =>
    /\ basic_blocks(buffer, entries_arg).kind = "Ok"
    /\ ret.val = basic_blocks(buffer, entries_arg).val

-----------------------------------------------------------------------------
(* Termination of the worklist loop (SpecBlocksLive).  basic_blocks is      *)
(* sequential code: while an iteration or the return is possible, the next  *)
(* one is taken.                                                            *)

\* code units for the termination runs: nop, return-void, goto +1 (0x0128),
\* goto -1 (0xff28) and if-eqz v0 (0x0038, whose offset unit 0 branches to
\* the if itself), so that blocks can jump backwards, to each other and to
\* their own start
LoopUnits == {0, 14, 296, 65320, 56}

\* before the call: no arguments yet
InitLive ==
  /\ pc = "start"
  /\ buffer = <<>>
  /\ entries_arg = <<>>
  /\ overflow_checks \in BOOLEAN
  /\ bbs = NoBlocks
  /\ search_next = {}
  /\ popped = <<>>
  /\ ret = NoRet
  /\ cursor = 0
  /\ until_arg = 0
  /\ ins = <<>>

\* the call of basic_blocks with its arguments, up to the seeding of the
\* pending set
BasicBlocksCall ==
  /\ pc = "start"
  /\ buffer' \in SeqsUpTo(LoopUnits, MaxSmallCode)
  /\ entries_arg' \in EntryLists(buffer')
  /\ search_next' = seed(entries_arg')
  /\ pc' = "run"
  /\ UNCHANGED <<cursor, ret, until_arg, ins, bbs, popped, overflow_checks>>

NextLive == BasicBlocksCall \/ BasicBlocksIter \/ BasicBlocksReturn

\* basic_blocks keeps running: while it has not returned or panicked, a step
\* is taken again and again.  NextLive is enabled exactly when pc is
\* "start" or "run", so this is weak fairness of NextLive with the
\* enabling condition written out.
KeepsRunning == []<>(pc \notin {"start", "run"}) \/ []<><<NextLive>>_vars

SpecBlocksLive == InitLive /\ [][NextLive]_vars /\ KeepsRunning

\* C16: the worklist loop of basic_blocks terminates: unless a decode fails
\* (a panic), the pending set eventually becomes empty and the mapping is
\* returned, also for backward branches, loops and a block that branches to
\* its own start
WorklistTerminates ==
  (pc = "run") ~> (pc = "panicked" \/ (pc = "returned" /\ search_next = {}))

\* a mapping was returned that has a block branching to its own start
\* address, which was popped twice
WorklistTerminatesWitness ==
  /\ pc = "returned"
  /\ ret.kind = "Ok"
  /\ \E k \in DOMAIN ret.val :
       /\ \E i \in 1..Len(ret.val[k].next.targets) : ret.val[k].next.targets[i] = k
       /\ Cardinality({i \in 1..Len(popped) : popped[i] = k}) = 2

-----------------------------------------------------------------------------
(* Signed operands (SpecOne).                                              *)

\* the value of the low `width` bits v read as a two's complement number
SignExtend(v, width) == IF v >= 2 ^ (width - 1) THEN v - 2 ^ width ELSE v

\* the variants with an 8-bit literal CC in the high byte of the second unit
Lit8Variants ==
  {"AddInt8", "RsubInt8", "MulInt8", "DivInt8", "RemInt8", "AndInt8", "OrInt8",
   "XorInt8", "ShlInt8", "ShrInt8", "UshrInt8"}

\* the variants whose second operand is the 16-bit second unit: literals
\* (21s, 21h) and branch offsets (21t)
Signed16Second ==
  {"Const16", "ConstHigh16", "ConstWide16", "ConstWideHigh16", "IfEqz",
   "IfNez", "IfLtz", "IfGez", "IfGtz", "IfLez"}

\* the variants whose third operand is the 16-bit second unit: branch
\* offsets (22t) and literals (22s)
Signed16Third ==
  {"IfEq", "IfNe", "IfLt", "IfGe", "IfGt", "IfLe", "AddInt16", "RsubInt16",
   "MulInt16", "DivInt16", "RemInt16", "AndInt16", "OrInt16", "XorInt16"}

\* C17: signed literal and offset operands are sign-extended at their
\* encoded width: the const/4 nibble (bits 12-15) at 4 bits, the goto offset
\* and the lit8 literals at 8 bits, the 16-bit literals and the if-* and
\* goto/16 offsets at 16 bits, the literals of const/high16 and
\* const-wide/high16 among them
SignedOperandsExtended ==
  ret.kind = "Ok" =>
    LET tag == ret.val.tag
        f == ret.val.f
        first == CalledOn[1]
    IN /\ tag = "Const4" => f[2] = SignExtend(first \div 4096, 4)
       /\ tag = "Goto" => f[1] = SignExtend(first \div 256, 8)
       /\ tag \in Lit8Variants => f[3] = SignExtend(CalledOn[2] \div 256, 8)
       /\ tag = "Goto16" => f[1] = SignExtend(CalledOn[2], 16)
       /\ tag \in Signed16Second => f[2] = SignExtend(CalledOn[2], 16)
       /\ tag \in Signed16Third => f[3] = SignExtend(CalledOn[2], 16)

-----------------------------------------------------------------------------
(* Operand order (SpecOne).                                                *)

\* the k-th nibble of the code unit u, counted from the low end
Nibble(u, k) == (u \div (16 ^ k)) % 16

\* the variants of the 35c format
Args5Variants ==
  {"FilledNewArray", "InvokeVirtual", "InvokeSuper", "InvokeDirect",
   "InvokeStatic", "InvokeInterface"}

\* C18: a 35c encoding A|G|op BBBB F|E|D|C decodes to nargs = A,
\* index = BBBB and the argument list [C, D, E, F, G] in that order
ArgsInDeclaredOrder ==
  (ret.kind = "Ok" /\ ret.val.tag \in Args5Variants) =>
    /\ ret.val.f[1] = CalledOn[2]
    /\ ret.val.f[2] = Nibble(CalledOn[1], 3)
    /\ ret.val.f[3] = <<Nibble(CalledOn[3], 0), Nibble(CalledOn[3], 1),
                        Nibble(CalledOn[3], 2), Nibble(CalledOn[3], 3),
                        Nibble(CalledOn[1], 2)>>

\* invoke-static {v0, v3}, method@4455 was decoded from 0x2071 0x4455 0x0030:
\* two arguments, 0 then 3
ArgsInDeclaredOrderWitness ==
  /\ ret.kind = "Ok"
  /\ CalledOn = <<8305, 17493, 48>>
  /\ ret.val.tag = "InvokeStatic"
  /\ ret.val.f[1] = 17493
  /\ ret.val.f[2] = 2
  /\ ret.val.f[3][1] = 0
  /\ ret.val.f[3][2] = 3

\* the opcode byte and the operand fields of the code units the last call
\* was made on
CalledOp == CalledOn[1] % 256
FieldAA == CalledOn[1] \div 256
FieldBB == CalledOn[2] % 256
FieldCC == CalledOn[2] \div 256

\* C19: a three-register 23x instruction AA|op CC|BB decodes to
\* (dst, src1, src2) = (AA, BB, CC), and a 22b instruction to
\* (dst, src, literal) = (AA, BB, sign-extended CC)
ThreeOperandsReordered ==
  ret.kind = "Ok" =>
    /\ CalledOp \in ThreeRegOps => ret.val.f = <<FieldAA, FieldBB, FieldCC>>
    /\ CalledOp \in Lit8Ops =>
         ret.val.f = <<FieldAA, FieldBB, SignExtend(FieldCC, 8)>>

\* add-int v3, v2, v129 was decoded from 0x0390 0x8102
ThreeOperandsReorderedWitness ==
  /\ ret.kind = "Ok"
  /\ CalledOn = <<912, 33026>>
  /\ ret.val.tag = "AddInt"
  /\ ret.val.f = <<3, 2, 129>>

\* the opcodes of the formats that pack two registers as B|A|op: 12x (move,
\* move-wide, move-object, array-length, unary and /2addr arithmetic), 22c
\* (instance-of, new-array, iget*/iput*), 22t (if-*) and 22s (*/lit16)
TwoNibbleOps ==
  {1, 4, 7, 33} \cup (123..143) \cup (176..207)
    \cup {32, 35} \cup (82..95) \cup (50..55) \cup (208..215)

\* C20: an instruction whose format packs two 4-bit registers as B|A|op
\* decodes with its operands in the mnemonic order vA, vB: the first operand
\* is A (bits 8-11 of the first code unit) and the second is B (bits 12-15)
OperandsFollowMnemonic ==
  (ret.kind = "Ok" /\ CalledOp \in TwoNibbleOps) =>
    /\ ret.val.f[1] = Nibble(CalledOn[1], 2)
    /\ ret.val.f[2] = Nibble(CalledOn[1], 3)

-----------------------------------------------------------------------------
(* Argument counts, control flow and format invariants (SpecOne).          *)

\* the opcodes of the 35c format: filled-new-array and invoke-*
Args5Ops == {36} \cup (110..114)

\* C21: an instruction decoded for a 35c opcode has nargs of at most 5, and
\* a whole 35c encoding whose count nibble A exceeds 5 is rejected with
\* Encoding
NargsAtMostFive ==
  (ret.kind # "None" /\ Len(CalledOn) >= 3 /\ CalledOp \in Args5Ops) =>
    /\ ret.kind = "Ok" => ret.val.f[2] <= 5
    /\ Nibble(CalledOn[1], 3) > 5 => ret.kind = "Err" /\ ret.val = Encoding

\* SpecFlow: the caller of SpecOne, which may also ask the instruction it
\* just decoded for its control flow; `ins` keeps the answer together with
\* the instruction and the address it was decoded at
ControlFlowCall ==
  /\ pc = "run"
  /\ ret.kind = "Ok"
  /\ ins' = <<[at |-> ret.at, inst |-> ret.val, flow |-> control_flow(ret.val)]>>
  /\ UNCHANGED <<buffer, cursor, ret, pc, until_arg, entries_arg, bbs,
                 search_next, popped, overflow_checks>>

NextFlow == DecodeOne \/ ControlFlowCall

SpecFlow == InitOne /\ [][NextFlow]_vars

\* the control flow the Dalvik opcode at the head of the slice b has:
\* return-void, return, return-wide, return-object (0x0e-0x11) and throw
\* (0x27) terminate; goto (0x28), goto/16 (0x29) and goto/32 (0x2a) jump by
\* their offset read as a signed number; if-* (0x32-0x3d) branch by their
\* second unit read as a signed number; every other instruction falls
\* through
FlowOfOpcode(b) ==
  LET op == b[1] % 256
  IN CASE op \in (14..17) \cup {39} -> Terminate
       [] op = 40 -> GoTo(SignExtend(b[1] \div 256, 8))
       [] op = 41 -> GoTo(SignExtend(b[2], 16))
       [] op = 42 -> GoTo(SignExtend(b[3], 16) * 65536 + b[2])
       [] op \in 50..61 -> Branch(SignExtend(b[2], 16))
       [] OTHER -> FallThrough

\* C22: control_flow is Terminate exactly for the four returns and throw,
\* GoTo(offset) exactly for goto, goto/16 and goto/32 with the signed
\* offset, Branch(offset) exactly for the twelve if-*, and FallThrough for
\* every other instruction, packed-switch and sparse-switch included; it
\* depends on the tag and the offset operand only
ControlFlowByTag ==
  \A i \in DOMAIN ins :
    /\ ins[i].flow = FlowOfOpcode(Drop(buffer, ins[i].at))
    /\ ins[i].inst.tag \in {"PackedSwitch", "SparseSwitch"} =>
         ins[i].flow = FallThrough

\* a decoded throw was asked for its control flow and answered Terminate
ControlFlowByTagWitness ==
  /\ Len(ins) = 1
  /\ ins[1].inst.tag = "Throw"
  /\ ins[1].flow = Terminate

\* the units of the formats whose first unit must have a zero high byte:
\* return-void (10x), goto/16 (20t), goto/32 (30t), move/16, move-wide/16
\* and move-object/16 (32x)
ZeroHighUnits(op) ==
  CASE op = 14 -> 1
    [] op = 41 -> 2
    [] op \in {42, 3, 6, 9} -> 3
    [] OTHER -> 0

\* a format invariant is violated by the whole encoding at the head of the
\* slice b: a nonzero high byte where it must be zero, or an opcode 0x00
\* unit whose sub-selector is none of 0, 1, 2, 3
FormatViolated(b) ==
  /\ Len(b) > 0
  /\ LET op == b[1] % 256
         hi == b[1] \div 256
     IN \/ ZeroHighUnits(op) > 0 /\ Len(b) >= ZeroHighUnits(op) /\ hi # 0
        \/ op = 0 /\ hi \notin 0..3

\* C23: when a format invariant is violated by a whole encoding, decode_one
\* returns Encoding and no instruction
FormatViolationIsEncoding ==
  (ret.kind # "None" /\ FormatViolated(CalledOn)) =>
    /\ ret.kind = "Err"
    /\ ret.val = Encoding

\* goto/16 with the high byte 0xf1 was rejected with Encoding
FormatViolationIsEncodingWitness ==
  /\ ret.kind = "Err"
  /\ ret.val = Encoding
  /\ Len(CalledOn) >= 2
  /\ CalledOn[1] = 61737

-----------------------------------------------------------------------------
(* The order of the worklist (SpecBlocks).  `popped` lists the start       *)
(* addresses in the order they were removed from the pending set.          *)

\* C25: an address removed from the pending set is not yet a key of the
\* mapping, so no start address is decoded into a block more than once in
\* one call, a block that targets its own start included
PoppedOnce ==
  /\ \A i, j \in DOMAIN popped : i # j => popped[i] # popped[j]
  /\ (pc = "run" /\ search_next # {}) =>
       pop_first(search_next) \notin DOMAIN bbs

\* the exit targets of one block
TargetsOf(bb) == {bb.next.targets[i] : i \in 1..Len(bb.next.targets)}

\* C26 (as the code has it): each address removed from the pending set is
\* the smallest pending one, so the sequence of start addresses increases
\* from one removal to the next except where the address removed next is an
\* exit target of the block just resolved (a backward branch or a branch to
\* the block's own start)
PoppedIncreasesUpToTargets ==
  \A i \in 1..(Len(popped) - 1) :
    \/ UsizeLt(popped[i], popped[i + 1])
    \/ popped[i + 1] \in TargetsOf(bbs[popped[i]])

\* a call returned after it removed a smaller address later than a larger
\* one
PoppedIncreasesUpToTargetsWitness ==
  /\ pc = "returned"
  /\ \E i \in 1..(Len(popped) - 1) : popped[i + 1] < popped[i]
  /\ \E i \in 1..(Len(popped) - 1) : popped[i + 1] > popped[i]
  /\ \A i \in DOMAIN popped : popped[i] >= 0

\* C26 (as stated): the sequence of start addresses handed to block
\* decoding is strictly increasing
PoppedStrictlyIncreasing ==
  \A i, j \in DOMAIN popped : i < j => UsizeLt(popped[i], popped[j])

-----------------------------------------------------------------------------
(* Blocks once recorded (SpecBlocks).                                      *)

\* the instruction of the block bb keyed k that stands at the address m
InstructionAt(k, bb, m) ==
  bb.instructions[1 + CHOOSE i \in 1..(Len(bb.instructions) - 1) :
                        m = k + units(SubSeq(bb.instructions, 1, i))]

\* where a key m lies strictly inside the block of another key k, the block
\* of m starts with the instruction the block of k has at m
OverlapsFromMidpoint ==
  \A k \in DOMAIN bbs : \A m \in DOMAIN bbs :
    m \in InnerAddresses(k, bbs[k]) =>
      bbs[m].instructions[1] = InstructionAt(k, bbs[k], m)

\* no step changes or removes a block that is recorded
RecordedBlocksKept ==
  \A k \in DOMAIN bbs : k \in DOMAIN bbs' /\ bbs'[k] = bbs[k]

\* C27: a block once recorded is left unchanged, so its block in the final
\* mapping is the block first recorded for its key; a target discovered
\* later strictly inside a resolved block gets a new block of its own that
\* starts at that midpoint and overlaps the resolved one
ResolvedBlocksLeftIntact ==
  /\ []OverlapsFromMidpoint
  /\ [][RecordedBlocksKept]_vars

\* a mapping was returned in which a key lies strictly inside the block of
\* a smaller key that was resolved before it
ResolvedBlocksLeftIntactWitness ==
  /\ pc = "returned"
  /\ ret.kind = "Ok"
  /\ \E k \in DOMAIN ret.val : \E m \in DOMAIN ret.val :
       /\ m \in InnerAddresses(k, ret.val[k])
       /\ \E i, j \in DOMAIN popped : i < j /\ popped[i] = k /\ popped[j] = m

-----------------------------------------------------------------------------
(* Register ranges (SpecOne).                                              *)

\* the opcodes of the range format 3rc: filled-new-array/range and
\* invoke-*/range
RangeOps == {37} \cup (116..120)

\* C28: a whole range encoding AA|op BBBB CCCC decodes to the index BBBB and
\* the AA consecutive registers CCCC, CCCC+1, ..., CCCC+AA-1 in ascending
\* order, also when CCCC + AA exceeds 65535
RangeArgsConsecutive ==
  (ret.kind # "None" /\ Len(CalledOn) >= 3 /\ CalledOp \in RangeOps) =>
    /\ ret.kind = "Ok"
    /\ ret.val.f[1] = CalledOn[2]
    /\ ret.val.f[2] = [k \in 1..FieldAA |-> CalledOn[3] + (k - 1)]

-----------------------------------------------------------------------------
(* Addresses of a returned mapping (SpecBlocks).                           *)

\* the code-unit addresses inside the buffer
ValidAddresses == 0..(Len(buffer) - 1)

\* C29: when basic_blocks returns a mapping, every key and every exit
\* target in it is an address inside the buffer; a backward branch to below
\* 0 yields no block and no edge of a returned mapping
AddressesInsideBuffer ==
  (pc = "returned" /\ ret.kind = "Ok") =>
    /\ DOMAIN ret.val \subseteq ValidAddresses
    /\ ExitTargets(ret.val) \subseteq ValidAddresses

\* a mapping with a backward edge was returned
AddressesInsideBufferWitness ==
  /\ pc = "returned"
  /\ ret.kind = "Ok"
  /\ \E k \in DOMAIN ret.val : \E t \in TargetsOf(ret.val[k]) : t < k

-----------------------------------------------------------------------------
(* SpecEntries: basic_blocks called with entry lists in any order, with    *)
(* repeats and with address 0 listed.                                      *)

\* the lists of at most two entry addresses, within the buffer or at its
\* end, in any order and with repeats
AnyEntryLists(bytecode) ==
  {<<>>} \cup {<<a>> : a \in 0..Len(bytecode)}
    \cup {<<a, b>> : a \in 0..Len(bytecode), b \in 0..Len(bytecode)}

InitEntries ==
  /\ buffer \in SeqsUpTo(BlockUnits, MaxSmallCode)
  /\ entries_arg \in AnyEntryLists(buffer)
  /\ overflow_checks \in BOOLEAN
  /\ bbs = NoBlocks
  /\ search_next = seed(entries_arg)
  /\ popped = <<>>
  /\ ret = NoRet
  /\ pc = "run"
  /\ cursor = 0
  /\ until_arg = 0
  /\ ins = <<>>

SpecEntries == InitEntries /\ [][NextBlocks]_vars

\* the plain set of a list of entries: its nonzero addresses, each once, in
\* increasing order
PlainEntries(entries) ==
  LET set == {entries[i] : i \in 1..Len(entries)} \ {0}
  IN CHOOSE e \in SeqsUpTo(set, Cardinality(set)) :
       /\ {e[i] : i \in 1..Len(e)} = set
       /\ \A i \in 1..(Len(e) - 1) : e[i] < e[i + 1]

\* C30: the result of basic_blocks depends only on the set of supplied
\* entries: a list that is reordered, repeats an entry or lists address 0
\* gives the mapping (or the panic) of the plain set
EntriesAsSet ==
  /\ pc = "returned" =>
       /\ basic_blocks(buffer, PlainEntries(entries_arg)).kind = "Ok"
       /\ ret.val = basic_blocks(buffer, PlainEntries(entries_arg)).val
  /\ pc = "panicked" =>
       basic_blocks(buffer, PlainEntries(entries_arg)).kind = "Panic"

\* a mapping with three keys was returned for two entries listed in
\* decreasing order
EntriesAsSetWitness ==
  /\ pc = "returned"
  /\ Len(entries_arg) = 2
  /\ entries_arg[1] > entries_arg[2]
  /\ entries_arg[2] > 0
  /\ {0, entries_arg[1], entries_arg[2]} \subseteq DOMAIN ret.val

=============================================================================
